---- MODULE Spec2Model ----
(***************************************************************************)
(* State-machine model of auto_round/autoround.py: the per-block tuning    *)
(* loop (AutoRound.quant_block), the block wrap/unwrap helpers             *)
(* (wrapper_block, unwrapper_block, WrapperLinear) and the calibration     *)
(* capture (AutoRound.cache_block_input, AutoRound.calib).                 *)
(*                                                                         *)
(* Tensors are abstracted to integers: a layer's rounding offset `value`   *)
(* and its clip fractions min_scale / max_scale are one integer each, with *)
(* the clamp bounds -1 and 0 kept literally.  A loss is a natural number;  *)
(* Inf stands for a loss that is not below torch.finfo(torch.float).max    *)
(* (an overflowed or NaN loss: both compare the same way at line 1062).    *)
(***************************************************************************)
EXTENDS Integers, Sequences, FiniteSets, TLC

\* ---------------------------------------------------------------- bounds
MaxLoss == 1        \* finite losses are 0..MaxLoss
MaxIters == 7       \* largest iteration budget with a frozen learning rate
MaxGap == 5         \* largest dynamic_max_gap
MaxTunedIters == 2  \* largest iteration budget with a non-zero learning rate
MaxSnapV == 1       \* rounding offsets handed to unwrapper_block are 0..MaxSnapV
MaxSamples == 3     \* largest requested calibration sample count
MaxBatch == 2       \* largest number of samples in one dataloader batch
MaxBatches == 3     \* longest dataloader
MaxArg == 2         \* constructor arguments are -1..MaxArg
MaxBlocks == 4      \* largest number of structural blocks
MaxGroup == 2       \* largest n_blocks (blocks fused into one group)

\* ------------------------------------------------------------- the block
\* block.named_modules() order of the weight-bearing layers of the toy block
LayerOrder == <<"q_proj", "o_proj">>
Layers == {LayerOrder[k] : k \in 1..Len(LayerOrder)}

\* torch.finfo(torch.float).max, the initial best_loss; every finite loss of
\* the model lies below it
FloatMax == MaxLoss + 1
Inf == FloatMax + 1
Losses == (0..MaxLoss) \cup {Inf}

VARIABLES
    cfg,             \* the AutoRound attributes quant_block reads
    pc,              \* position inside quant_block
    wrapper,         \* wrapped layer name -> [value, min_scale, max_scale]
    layer,           \* layer name -> original layer (what unwrapper stored)
    i,               \* loop index of `for i in range(self.iters)`; iters once exhausted
    total_loss,      \* loss of the current iteration
    best_loss,
    last_best_iter,
    best_v, best_min_scale, best_max_scale,
    err,             \* exception that left the modelled function, or "none"
    loss_hist,       \* history: total_loss of every executed iteration
    param_hist,      \* history: the wrappers as each iteration's forward used them
    snap_iter        \* history: iteration of the latest snapshot, -1 when none

blockVars == <<cfg, pc, wrapper, layer, i, total_loss, best_loss, last_best_iter,
               best_v, best_min_scale, best_max_scale, err, loss_hist, param_hist, snap_iter>>

VARIABLES
    n_samples,       \* the sample count cache_block_input / calib is asked for
    tokenizer,       \* TRUE iff self.tokenizer is not None
    forward,         \* the designated block's forward: "orig" or "hook"
    orig_forward,    \* TRUE iff the block has the attribute orig_forward
    inputs,          \* samples in self.inputs[name]["input_ids"], NoEntry if no key
    total_cnt,       \* calib's running sample counter
    data_new,        \* calib's local data_new: Unbound or the last keyed batch
    n_batches,       \* batches drawn from the dataloader so far
    last_run,        \* history: how the latest batch's model call ended
    warned           \* history: the warning of line 816 was logged

calibVars == <<n_samples, tokenizer, forward, orig_forward, inputs, total_cnt,
               data_new, n_batches, last_run, warned>>

VARIABLES
    args,            \* the arguments AutoRound.__init__ was called with
    attrs,           \* the attributes __init__ has set, once it has run
    run,             \* what qdq_weight_round reads: block count, n_blocks,
                     \* MAX_NUM_BLOCKS, the marker, the checkpoint settings
    block_i,         \* loop index of `for i in range(0, len(block_names), n_blocks)`
    input_ids,       \* qdq_weight_round's input_ids, as the forwards that produced it
    q_input,         \* qdq_weight_round's q_input, likewise, or None
    weights,         \* structural block (1-based) -> state of its weights
    ckpt,            \* the checkpoint directory: saved weights and quant_info.json
    calls,           \* history: one record per quant_block call
    saves            \* history: one record per _save_model_to_local call

VARIABLES
    qin,             \* what the caller hands to AutoRound(...) before quantize()
    amp,             \* self.amp
    amp_dtype,       \* self.amp_dtype
    model_dtype,     \* self.model.dtype
    modules,         \* supported-type module name -> its weight and attributes
    weight_config,   \* self.weight_config: module name -> its entry
    quantized,       \* self.quantized: "unset" until quantize() assigns it
    ret,             \* what quantize() returned, Unset while it has not
    trace            \* history: the calls quantize() has made

quantizeVars == <<qin, amp, amp_dtype, model_dtype, modules, weight_config,
                  quantized, ret, trace>>

VARIABLES
    llama_decoder_layer,  \* the block: its named modules, weights, requires_grad flags
    module_pairs_info,    \* the list of (prev_op_name, layer_names) pairs
    scale_mods,           \* the ScaleMod objects created so far, by identity
    hidden_states,        \* the input the block's forward is evaluated on
    output_ref            \* the block's output before replace_

teqVars == <<llama_decoder_layer, module_pairs_info, scale_mods, hidden_states, output_ref>>

VARIABLES
    default_weight_config,  \* the dict object that is the default of __init__'s
                            \* weight_config parameter (created once, line 439)
    instances               \* instance -> its arguments, its modules' attributes,
                            \* and (history) the entries it set itself

sharedVars == <<default_weight_config, instances>>

VARIABLES
    orig_layer,      \* one supported layer: its kind, its configuration, its
                     \* weight and the metadata unwrapper stored on it
    wrapper_obj      \* the wrapper around it: the attributes its __init__ set

wrapVars == <<orig_layer, wrapper_obj>>

VARIABLES
    block,           \* the block quant_block works on: its weights, whether its
                     \* layers are wrapped, optimizer steps taken on it
    indices,         \* quant_block's local `indices`, << >> while unbound
    block_output,    \* quant_block's local `output`, the reference output
    acc,             \* passes of `for _ in range(gradient_accumulate_steps)` done
    returned,        \* what quant_block returned, << >> while it has not
    draw_at,         \* history: iteration of the latest randperm, -1 before the loop
    events,          \* history: the calls of the current iteration, in order
    n_opt,           \* history: optimizer.step() calls so far, direct or by the scaler
    n_sched          \* history: lr_schedule.step() calls so far

trainVars == <<block, indices, block_output, acc, returned, draw_at, events, n_opt, n_sched>>

extraVars == <<sharedVars, wrapVars, trainVars>>

runVars == <<args, attrs, run, block_i, input_ids, q_input, weights, ckpt, calls, saves,
             quantizeVars, teqVars, extraVars>>

vars == <<blockVars, calibVars, runVars>>

\* ------------------------------------------------------------ primitives
\* torch.clamp(x, -1, 0)
Clamp(x) == IF x < -1 THEN -1 ELSE IF x > 0 THEN 0 ELSE x

EmptyDict == [n \in {} |-> 0]
\* torch.tensor(0): the placeholder that is not a dict
Tensor0 == [isdict |-> FALSE, d |-> EmptyDict]
Dict(f) == [isdict |-> TRUE, d |-> f]

\* a freshly constructed wrapper: value and both scales are zeros
NewWrapper == [value |-> 0, min_scale |-> 0, max_scale |-> 0]

\* an original layer that has not been quantized
FloatLayer == [quantized |-> FALSE, v |-> 0, min_scale |-> 0, max_scale |-> 0]

\* a forward that clamps min_scale only
WrapperForwardMinOnly(w) == [w EXCEPT !.min_scale = Clamp(w.min_scale)]
\* a forward that clamps max_scale only
WrapperForwardMut(w) == [w EXCEPT !.max_scale = Clamp(w.max_scale)]
\* WrapperLinear.forward: clamps both scales in place before quant_weight
WrapperForward(w) ==
    [w EXCEPT !.min_scale = Clamp(w.min_scale), !.max_scale = Clamp(w.max_scale)]

\* WrapperLinear.unwrapper: clamps the scales it is given and hands
\* (v, min_scale, max_scale) to quant_weight; the result replaces the weight
Unwrapper(v, min_scale, max_scale) ==
    [quantized |-> TRUE, v |-> v,
     min_scale |-> Clamp(min_scale), max_scale |-> Clamp(max_scale)]

\* utils.collect_round_v: a copy of every wrapped layer's value, by name
collect_round_v(w) == Dict([n \in DOMAIN w |-> w[n].value])
\* utils.collect_minmax_scale: clamped copies of every wrapped layer's scales
collect_min_scale(w) == Dict([n \in DOMAIN w |-> Clamp(w[n].min_scale)])
collect_max_scale(w) == Dict([n \in DOMAIN w |-> Clamp(w[n].max_scale)])

Restrict(f, S) == [n \in S |-> f[n]]

\* unwrapper_block: walks named_modules in order; a wrapped layer takes its
\* entry of each dict argument (a missing key raises KeyError and leaves the
\* layers handled so far unwrapped) or the neutral value when the argument is
\* not a dict
RECURSIVE UnwrapFrom(_, _, _, _, _, _)
UnwrapFrom(k, w, ly, vs, min_scales, max_scales) ==
    IF k > Len(LayerOrder) THEN [wrapper |-> w, layer |-> ly, err |-> "none"]
    ELSE LET n == LayerOrder[k] IN
         IF n \notin DOMAIN w THEN UnwrapFrom(k + 1, w, ly, vs, min_scales, max_scales)
         ELSE IF \/ vs.isdict /\ n \notin DOMAIN vs.d
                 \/ min_scales.isdict /\ n \notin DOMAIN min_scales.d
                 \/ max_scales.isdict /\ n \notin DOMAIN max_scales.d
              THEN [wrapper |-> w, layer |-> ly, err |-> "KeyError"]
              ELSE LET v == IF vs.isdict THEN vs.d[n] ELSE 0
                       mn == IF min_scales.isdict THEN Clamp(min_scales.d[n]) ELSE 0
                       mx == IF max_scales.isdict THEN Clamp(max_scales.d[n]) ELSE 0
                   IN UnwrapFrom(k + 1, Restrict(w, DOMAIN w \ {n}),
                                 [ly EXCEPT ![n] = Unwrapper(v, mn, mx)],
                                 vs, min_scales, max_scales)

\* an unwrapper_block that passes over the first layer
unwrapper_blockSkipFirst(w, ly, vs, min_scales, max_scales) ==
    UnwrapFrom(2, w, ly, vs, min_scales, max_scales)

\* unwrapper_block without the isinstance tests: every argument is indexed
unwrapper_blockNoFallback(w, ly, vs, min_scales, max_scales) ==
    IF vs.isdict /\ min_scales.isdict /\ max_scales.isdict
    THEN UnwrapFrom(1, w, ly, vs, min_scales, max_scales)
    ELSE [wrapper |-> w, layer |-> ly, err |-> "TypeError"]

unwrapper_block(w, ly, vs, min_scales, max_scales) ==
    UnwrapFrom(1, w, ly, vs, min_scales, max_scales)

\* self.inputs has no entry for the block
NoEntry == -1
\* a local variable that was never assigned
Unbound == [bound |-> FALSE, size |-> 0, long |-> FALSE]
\* a keyed batch: its number of samples, and whether it reaches seqlen
Batch(size, long) == [bound |-> TRUE, size |-> size, long |-> long]

\* the calibration state of an instance that is not calibrating
CalibIdle ==
    /\ n_samples = 1
    /\ tokenizer = TRUE
    /\ forward = "orig"
    /\ orig_forward = FALSE
    /\ inputs = NoEntry
    /\ total_cnt = 0
    /\ data_new = Unbound
    /\ n_batches = 0
    /\ last_run = "none"
    /\ warned = FALSE

\* the defaults of AutoRound.__init__'s signature
DefaultArgs ==
    [bits |-> 4, group_size |-> 128, batch_size |-> 8, iters |-> 200, seqlen |-> 2048,
     n_blocks |-> 1, gradient_accumulate_steps |-> 1]
\* no attribute has been set yet
NoAttrs ==
    [bits |-> 0, group_size |-> 0, train_bs |-> 0, iters |-> 0, seqlen |-> 0,
     n_blocks |-> 0, gradient_accumulate_steps |-> 0, pre_quantized_block_num |-> 0,
     iters_reset |-> FALSE]

\* a tensor is written as the sequence of block forwards that produced it from
\* the calibration input, each <<block, state of the block's weights>>
CalibInput == << >>
\* Python's None where a tensor is expected
None == << <<0, "none">> >>

\* QUANT_INFO_DIR and the quant_info.json / saved model it holds
NoCheckpoint == [dir |-> "unset", marker |-> 0, model |-> << >>]

\* the state of an instance that is not inside qdq_weight_round
\* quantize() has not been called and no scenario for it is set up
QuantizeIdle ==
    /\ qin = [n \in {} |-> 0]
    /\ amp = FALSE
    /\ amp_dtype = "fp16"
    /\ model_dtype = "fp32"
    /\ modules = [n \in {} |-> 0]
    /\ weight_config = [n \in {} |-> 0]
    /\ quantized = "unset"
    /\ ret = "unset"
    /\ trace = << >>

\* no block has been handed to replace_
TeqIdle ==
    /\ llama_decoder_layer = [n \in {} |-> 0]
    /\ module_pairs_info = << >>
    /\ scale_mods = << >>
    /\ hidden_states = 0
    /\ output_ref = 0

\* no AutoRound instance has been constructed with the default weight_config
SharedIdle ==
    /\ default_weight_config = [n \in {} |-> 0]
    /\ instances = [x \in {} |-> 0]

\* no single-layer wrapper scenario is set up
WrapIdle ==
    /\ orig_layer = [n \in {} |-> 0]
    /\ wrapper_obj = [n \in {} |-> 0]

\* quant_block's statement-level scenario is not set up
TrainIdle ==
    /\ block = [n \in {} |-> 0]
    /\ indices = << >>
    /\ block_output = << >>
    /\ acc = 0
    /\ returned = << >>
    /\ draw_at = -1
    /\ events = << >>
    /\ n_opt = 0
    /\ n_sched = 0

ExtraIdle == SharedIdle /\ WrapIdle /\ TrainIdle

RunIdle ==
    /\ args = DefaultArgs
    /\ attrs = NoAttrs
    /\ run = [len_block_names |-> 1, n_blocks |-> 1, MAX_NUM_BLOCKS |-> 1000,
              pre_quantized_block_num |-> 0, save_checkpoint |-> FALSE,
              use_quant_input |-> TRUE]
    /\ block_i = 0
    /\ input_ids = CalibInput
    /\ q_input = None
    /\ weights = << >>
    /\ ckpt = NoCheckpoint
    /\ calls = << >>
    /\ saves = << >>
    /\ QuantizeIdle
    /\ TeqIdle
    /\ ExtraIdle

\* ------------------------------------------------------ quant_block: Init
Gaps == {-1} \cup (1..MaxGap)

\* iteration budgets of any length with a zero learning rate (the parameters
\* stay at their initial zeros), short budgets with learning rates that are
\* multiples of the budget, so that every decayed rate lr * (1 - k/iters) of
\* the default LinearLR schedule is a whole number
Configs ==
    [iters : 1..MaxIters, dynamic_max_gap : Gaps, not_use_best_mse : BOOLEAN,
     enable_minmax_tuning : {TRUE}, lr : {0}, minmax_lr : {0}, to_quant : {Layers}]
    \cup
    UNION {[iters : {n}, dynamic_max_gap : {-1, 1}, not_use_best_mse : BOOLEAN,
            enable_minmax_tuning : BOOLEAN, lr : {n}, minmax_lr : {n, 2 * n},
            to_quant : {{"q_proj"}}] : n \in 1..MaxTunedIters}
    \cup
    [iters : {2}, dynamic_max_gap : {-1}, not_use_best_mse : {FALSE},
     enable_minmax_tuning : {TRUE}, lr : {2}, minmax_lr : {2}, to_quant : {Layers}]

Init ==
    /\ cfg \in Configs
    /\ pc = "wrap"
    /\ wrapper = EmptyDict
    /\ layer = [n \in Layers |-> FloatLayer]
    /\ i = 0
    /\ total_loss = 0
    /\ best_loss = FloatMax
    /\ last_best_iter = 0
    /\ best_v = Tensor0
    /\ best_min_scale = Tensor0
    /\ best_max_scale = Tensor0
    /\ err = "none"
    /\ loss_hist = <<>>
    /\ param_hist = <<>>
    /\ snap_iter = -1
    /\ CalibIdle
    /\ RunIdle

\* --------------------------------------------------- quant_block: actions
\* wrapper_block and the loop set-up (lines 963-1016)
WrapBlock ==
    /\ pc = "wrap"
    /\ wrapper' = [n \in cfg.to_quant |-> NewWrapper]
    /\ i' = 0
    /\ last_best_iter' = 0
    /\ best_loss' = FloatMax
    /\ best_v' = Tensor0
    /\ best_min_scale' = Tensor0
    /\ best_max_scale' = Tensor0
    /\ pc' = "forward"
    /\ UNCHANGED <<cfg, layer, total_loss, err, loss_hist, param_hist, snap_iter>>
    /\ UNCHANGED calibVars
    /\ UNCHANGED runVars

\* the comparison with <= for <
ImprovesMut(loss, best) == loss <= best
\* the comparison of line 1062
Improves(loss, best) == loss < best

\* best_loss updated only under best tracking
NewBestLossMut(c, loss, best) ==
    IF Improves(loss, best) /\ ~c.not_use_best_mse THEN loss ELSE best
\* best_loss after the test of lines 1062-1063
NewBestLoss(c, loss, best) == IF Improves(loss, best) THEN loss ELSE best

\* the final-iteration capture tested against iters, one too far
CapturesLate(c, idx, loss, best) ==
    \/ Improves(loss, best) /\ ~c.not_use_best_mse
    \/ c.not_use_best_mse /\ idx = c.iters
\* the final-iteration capture tested against the first iteration
CapturesMut(c, idx, loss, best) ==
    \/ Improves(loss, best) /\ ~c.not_use_best_mse
    \/ c.not_use_best_mse /\ idx = 0
\* the snapshot conditions of lines 1062-1071
Captures(c, idx, loss, best) ==
    \/ Improves(loss, best) /\ ~c.not_use_best_mse
    \/ c.not_use_best_mse /\ idx = c.iters - 1

\* one iteration up to the snapshot (lines 1018-1071): the block forward on
\* the sampled batch, the loss, best-loss tracking and the snapshot
Forward(loss) ==
    /\ pc = "forward"
    /\ wrapper' = [n \in DOMAIN wrapper |-> WrapperForward(wrapper[n])]
    /\ total_loss' = loss
    /\ loss_hist' = Append(loss_hist, loss)
    /\ param_hist' = Append(param_hist, wrapper')
    /\ best_loss' = NewBestLoss(cfg, loss, best_loss)
    /\ last_best_iter' = IF Improves(loss, best_loss) /\ ~cfg.not_use_best_mse
                         THEN i ELSE last_best_iter
    /\ IF Captures(cfg, i, loss, best_loss)
       THEN /\ best_v' = collect_round_v(wrapper')
            /\ best_min_scale' = collect_min_scale(wrapper')
            /\ best_max_scale' = collect_max_scale(wrapper')
            /\ snap_iter' = i
       ELSE UNCHANGED <<best_v, best_min_scale, best_max_scale, snap_iter>>
    /\ pc' = "step"
    /\ UNCHANGED <<cfg, layer, i, err>>
    /\ UNCHANGED calibVars
    /\ UNCHANGED runVars

\* an early-stop test that does not look at not_use_best_mse
ShouldBreakNoFlag(c, idx, last) ==
    /\ c.dynamic_max_gap > 0
    /\ idx - last >= c.dynamic_max_gap
\* an early-stop test that fires one iteration early
ShouldBreakEarly(c, idx, last) ==
    /\ ~c.not_use_best_mse
    /\ c.dynamic_max_gap > 0
    /\ idx - last >= c.dynamic_max_gap - 1
\* the early-stop test with > for >=
ShouldBreakMut(c, idx, last) ==
    /\ ~c.not_use_best_mse
    /\ c.dynamic_max_gap > 0
    /\ idx - last > c.dynamic_max_gap
\* the early-stop test of lines 1073-1075
ShouldBreak(c, idx, last) ==
    /\ ~c.not_use_best_mse
    /\ c.dynamic_max_gap > 0
    /\ idx - last >= c.dynamic_max_gap

\* break at line 1075: the loop is left without an optimizer step
EarlyStop ==
    /\ pc = "step"
    /\ ShouldBreak(cfg, i, last_best_iter)
    /\ pc' = "unwrap"
    /\ UNCHANGED <<cfg, wrapper, layer, i, total_loss, best_loss, last_best_iter,
                   best_v, best_min_scale, best_max_scale, err, loss_hist, param_hist, snap_iter>>
    /\ UNCHANGED calibVars
    /\ UNCHANGED runVars

\* sign(grad) of a parameter that is stepped with rate r; with r = 0 the
\* parameter does not move whatever the sign is
Signs(r) == IF r = 0 THEN {1} ELSE {-1, 1}

\* the factor of the scheduler _init_scheduler builds when lr_scheduler is
\* None, LinearLR(start_factor=1.0, end_factor=0.0, total_iters=iters): after
\* k calls of lr_schedule.step() a group's rate is rate * (1 - k/iters), and
\* it stays at the end factor 0 from the iters-th call on
LinearLR(rate, iters, k) ==
    IF k >= iters THEN 0 ELSE (rate * (iters - k)) \div iters

\* optimizer.step() over the two parameter groups of _init_optimizer, after k
\* steps of the schedule: every value moves by the decayed lr * sign(grad);
\* the scales move by the decayed minmax_lr * sign(grad) when they are
\* Parameters (enable_minmax_tuning), else they are not stepped
MinmaxRate(c) == IF c.enable_minmax_tuning THEN c.minmax_lr ELSE 0

OptimizerStep(c, k, w, sv, smin, smax) ==
    [n \in DOMAIN w |->
        [value |-> w[n].value - LinearLR(c.lr, c.iters, k) * sv[n],
         min_scale |-> w[n].min_scale - LinearLR(MinmaxRate(c), c.iters, k) * smin[n],
         max_scale |-> w[n].max_scale - LinearLR(MinmaxRate(c), c.iters, k) * smax[n]]]

\* self.step(...) at line 1076: optimizer.step() with the rate the schedule
\* has reached after the i earlier iterations, then lr_schedule.step(); then
\* the next value of the loop index
Step ==
    /\ pc = "step"
    /\ ~ShouldBreak(cfg, i, last_best_iter)
    /\ \E sv \in [DOMAIN wrapper -> Signs(cfg.lr)],
          smin \in [DOMAIN wrapper -> Signs(MinmaxRate(cfg))],
          smax \in [DOMAIN wrapper -> Signs(MinmaxRate(cfg))] :
          wrapper' = OptimizerStep(cfg, i, wrapper, sv, smin, smax)
    /\ i' = i + 1
    /\ pc' = IF i + 1 < cfg.iters THEN "forward" ELSE "unwrap"
    /\ UNCHANGED <<cfg, layer, total_loss, best_loss, last_best_iter,
                   best_v, best_min_scale, best_max_scale, err, loss_hist, param_hist, snap_iter>>
    /\ UNCHANGED calibVars
    /\ UNCHANGED runVars

\* unwrapper_block(block, best_v, best_min_scale, best_max_scale), line 1090
Unwrap ==
    /\ pc = "unwrap"
    /\ LET r == unwrapper_block(wrapper, layer, best_v, best_min_scale, best_max_scale)
       IN /\ wrapper' = r.wrapper
          /\ layer' = r.layer
          /\ err' = r.err
          /\ pc' = IF r.err = "none" THEN "done" ELSE "raised"
    /\ UNCHANGED <<cfg, i, total_loss, best_loss, last_best_iter,
                   best_v, best_min_scale, best_max_scale, loss_hist, param_hist, snap_iter>>
    /\ UNCHANGED calibVars
    /\ UNCHANGED runVars

Next ==
    \/ WrapBlock
    \/ \E loss \in Losses : Forward(loss)
    \/ EarlyStop
    \/ Step
    \/ Unwrap

Spec == Init /\ [][Next]_vars

\* ------------------------------------------- unwrapper_block on its own
\* every value unwrapper_block can be handed for one of its three snapshot
\* arguments: the placeholder, or a dict over some of the layers
Snapshots(R) == {Tensor0} \cup UNION {{Dict(f) : f \in [T -> R]} : T \in SUBSET Layers}

\* a call of unwrapper_block on a freshly wrapped block with any arguments
InitUnwrap ==
    /\ cfg \in [iters : {1}, dynamic_max_gap : {-1}, not_use_best_mse : {FALSE},
                enable_minmax_tuning : {TRUE}, lr : {0}, minmax_lr : {0},
                to_quant : (SUBSET Layers) \ {{}}]
    /\ pc = "call"
    /\ wrapper = [n \in cfg.to_quant |-> NewWrapper]
    /\ layer = [n \in Layers |-> FloatLayer]
    /\ i = 0
    /\ total_loss = 0
    /\ best_loss = FloatMax
    /\ last_best_iter = 0
    /\ best_v \in Snapshots(0..MaxSnapV)
    /\ best_min_scale \in Snapshots(-2..1)
    /\ best_max_scale \in Snapshots(-2..1)
    /\ err = "none"
    /\ loss_hist = <<>>
    /\ param_hist = <<>>
    /\ snap_iter = -1
    /\ CalibIdle
    /\ RunIdle

\* unwrapper_block(block, vs, min_scales, max_scales)
UnwrapCall ==
    /\ pc = "call"
    /\ LET r == unwrapper_block(wrapper, layer, best_v, best_min_scale, best_max_scale)
       IN /\ wrapper' = r.wrapper
          /\ layer' = r.layer
          /\ err' = r.err
          /\ pc' = IF r.err = "none" THEN "done" ELSE "raised"
    /\ UNCHANGED <<cfg, i, total_loss, best_loss, last_best_iter,
                   best_v, best_min_scale, best_max_scale, loss_hist, param_hist, snap_iter>>
    /\ UNCHANGED calibVars
    /\ UNCHANGED runVars

NextUnwrap == UnwrapCall

SpecUnwrap == InitUnwrap /\ [][NextUnwrap]_vars

\* quant_block is sequential code: once entered, its next statement runs
SpecLive == Init /\ [][Next]_vars /\ WF_vars(Next)

\* ------------------------------------------- cache_block_input and calib
\* AutoRound.cache_block_input is entered with a model whose block has its
\* original forward
InitCalib ==
    /\ cfg \in [iters : {1}, dynamic_max_gap : {-1}, not_use_best_mse : {FALSE},
                enable_minmax_tuning : {TRUE}, lr : {0}, minmax_lr : {0},
                to_quant : {Layers}]
    /\ pc = "c_start"
    /\ wrapper = EmptyDict
    /\ layer = [n \in Layers |-> FloatLayer]
    /\ i = 0
    /\ total_loss = 0
    /\ best_loss = FloatMax
    /\ last_best_iter = 0
    /\ best_v = Tensor0
    /\ best_min_scale = Tensor0
    /\ best_max_scale = Tensor0
    /\ err = "none"
    /\ loss_hist = <<>>
    /\ param_hist = <<>>
    /\ snap_iter = -1
    /\ n_samples \in 1..MaxSamples
    /\ tokenizer \in BOOLEAN
    /\ forward = "orig"
    /\ orig_forward = FALSE
    /\ inputs = NoEntry
    /\ total_cnt = 0
    /\ data_new = Unbound
    /\ n_batches = 0
    /\ last_run = "none"
    /\ warned = FALSE
    /\ RunIdle

\* cache_block_input lines 835-837: self.inputs = {}, _replace_forward();
\* calib then sets total_cnt = 0 (line 771)
ReplaceForward ==
    /\ pc = "c_start"
    /\ inputs' = NoEntry
    /\ orig_forward' = TRUE
    /\ forward' = "hook"
    /\ total_cnt' = 0
    /\ pc' = "c_loop"
    /\ UNCHANGED <<n_samples, tokenizer, data_new, n_batches, last_run, warned>>
    /\ UNCHANGED <<cfg, wrapper, layer, i, total_loss, best_loss, last_best_iter,
                   best_v, best_min_scale, best_max_scale, err, loss_hist, param_hist, snap_iter>>
    /\ UNCHANGED runVars

\* the forward returned by get_forward_func, called with `size` samples:
\* lines 857-861 concatenate them to the buffer (or create it); the rest
\* of the hook (863-893) is told apart by the outcomes of RunModel
HookAppend(buf, size) == IF buf = NoEntry THEN size ELSE buf + size

\* lines 795-796: the part of the batch that still fits the request
Truncated(cnt, size, n) == IF cnt + size > n THEN n - cnt ELSE size

\* lines 797-805: the model is run on data_new. An unbound data_new raises
\* at line 798 and is logged. Otherwise the call ends in one of three ways:
\* "block": the hook appends the batch (857-861), stores the other inputs
\* (863-892) and raises NotImplementedError (893), which line 802 passes
\* over; "hook_error": the hook appends the batch and then raises another
\* error while storing the other inputs (the torch.cat of attention masks
\* at 875-877, kwargs["attention_mask"] at 885, the alibi reshape and cat
\* at 886-888), which line 804 catches and logs; "error": the call raises
\* before the hook has appended, also caught and logged at 804. Returns
\* the buffer afterwards.
RunModel(buf, dn, outcome) ==
    IF dn.bound /\ outcome \in {"block", "hook_error"}
    THEN HookAppend(buf, dn.size)
    ELSE buf

Outcomes == {"block", "hook_error", "error"}

\* how the try statement of lines 797-805 ended for a batch that reached it
RunStatus(dn, outcome) == IF dn.bound THEN outcome ELSE "unbound"

\* lines 793-808 for a batch whose input_ids has `size` samples, after
\* data_new has become dn
CalibTail(size, long, dn, outcome) ==
    /\ data_new' = dn
    /\ n_batches' = n_batches + 1
    /\ IF ~long
       THEN /\ last_run' = "short"
            /\ UNCHANGED <<inputs, total_cnt, pc>>
       ELSE /\ inputs' = RunModel(inputs, dn, outcome)
            /\ last_run' = RunStatus(dn, outcome)
            /\ total_cnt' = total_cnt + Truncated(total_cnt, size, n_samples)
            /\ pc' = IF total_cnt' >= n_samples THEN "c_after" ELSE "c_loop"
    /\ UNCHANGED <<n_samples, tokenizer, forward, orig_forward, err, warned>>
    /\ UNCHANGED <<cfg, wrapper, layer, i, total_loss, best_loss, last_best_iter,
                   best_v, best_min_scale, best_max_scale, loss_hist, param_hist, snap_iter>>
    /\ UNCHANGED runVars

InLoop == pc = "c_loop" /\ n_batches < MaxBatches

\* the dataloader yields None (lines 774-775)
CalibNone ==
    /\ InLoop
    /\ n_batches' = n_batches + 1
    /\ last_run' = "none"
    /\ UNCHANGED <<n_samples, tokenizer, forward, orig_forward, inputs, total_cnt,
                   data_new, warned>>
    /\ UNCHANGED blockVars
    /\ UNCHANGED runVars

\* the dataloader yields a raw token-id tensor (lines 776-777): input_ids is
\* the tensor, data_new is not assigned
CalibTensor(size, long, outcome) ==
    /\ InLoop
    /\ CalibTail(size, long, data_new, outcome)

\* the dataloader yields text (lines 779-787): without a tokenizer exit() is
\* called; with one, the text becomes a keyed batch of one sample
CalibStr(long, outcome) ==
    /\ InLoop
    /\ IF ~tokenizer
       THEN /\ pc' = "exited"
            /\ err' = "SystemExit"
            /\ n_batches' = n_batches + 1
            /\ last_run' = "none"
            /\ UNCHANGED <<n_samples, tokenizer, forward, orig_forward, inputs,
                           total_cnt, data_new, warned>>
            /\ UNCHANGED <<cfg, wrapper, layer, i, total_loss, best_loss, last_best_iter,
                           best_v, best_min_scale, best_max_scale, loss_hist,
                           param_hist, snap_iter>>
            /\ UNCHANGED runVars
       ELSE CalibTail(1, long, Batch(1, long), outcome)

\* the dataloader yields a keyed tensor bundle (lines 788-792)
CalibDict(size, long, outcome) ==
    /\ InLoop
    /\ CalibTail(size, long, Batch(size, long), outcome)

\* the dataloader is exhausted: the for loop of line 773 ends
DataExhausted ==
    /\ pc = "c_loop"
    /\ pc' = "c_after"
    /\ UNCHANGED calibVars
    /\ UNCHANGED runVars
    /\ UNCHANGED <<cfg, wrapper, layer, i, total_loss, best_loss, last_best_iter,
                   best_v, best_min_scale, best_max_scale, err, loss_hist, param_hist, snap_iter>>

\* lines 809-819: exit() when nothing was counted, a warning when too little
CalibCheck ==
    /\ pc = "c_after"
    /\ IF total_cnt = 0
       THEN pc' = "exited" /\ err' = "SystemExit"
       ELSE pc' = "c_recover" /\ err' = err
    /\ warned' = (0 < total_cnt /\ total_cnt < n_samples)
    /\ UNCHANGED <<n_samples, tokenizer, forward, orig_forward, inputs, total_cnt,
                   data_new, n_batches, last_run>>
    /\ UNCHANGED <<cfg, wrapper, layer, i, total_loss, best_loss, last_best_iter,
                   best_v, best_min_scale, best_max_scale, loss_hist, param_hist, snap_iter>>
    /\ UNCHANGED runVars

\* cache_block_input lines 839-842: _recover_forward(), then
\* res = self.inputs[self.tmp_block_name], a KeyError when the hook never ran
RecoverForward ==
    /\ pc = "c_recover"
    /\ forward' = "orig"
    /\ orig_forward' = FALSE
    /\ IF inputs = NoEntry
       THEN pc' = "raised" /\ err' = "KeyError"
       ELSE pc' = "c_returned" /\ err' = err
    /\ UNCHANGED <<n_samples, tokenizer, inputs, total_cnt, data_new, n_batches,
                   last_run, warned>>
    /\ UNCHANGED <<cfg, wrapper, layer, i, total_loss, best_loss, last_best_iter,
                   best_v, best_min_scale, best_max_scale, loss_hist, param_hist, snap_iter>>
    /\ UNCHANGED runVars

NextCalib ==
    \/ ReplaceForward
    \/ CalibNone
    \/ \E size \in 1..MaxBatch, long \in BOOLEAN, outcome \in Outcomes :
          CalibTensor(size, long, outcome)
    \/ \E long \in BOOLEAN, outcome \in Outcomes : CalibStr(long, outcome)
    \/ \E size \in 1..MaxBatch, long \in BOOLEAN, outcome \in Outcomes :
          CalibDict(size, long, outcome)
    \/ DataExhausted
    \/ CalibCheck
    \/ RecoverForward

SpecCalib == InitCalib /\ [][NextCalib]_vars

\* ------------------------------------------------------ AutoRound.__init__
\* the quant_block variables of an instance that is not inside quant_block
BlockIdle ==
    /\ cfg = [iters |-> 1, dynamic_max_gap |-> -1, not_use_best_mse |-> FALSE,
              enable_minmax_tuning |-> TRUE, lr |-> 0, minmax_lr |-> 0,
              to_quant |-> Layers]
    /\ wrapper = EmptyDict
    /\ layer = [n \in Layers |-> FloatLayer]
    /\ i = 0
    /\ total_loss = 0
    /\ best_loss = FloatMax
    /\ last_best_iter = 0
    /\ best_v = Tensor0
    /\ best_min_scale = Tensor0
    /\ best_max_scale = Tensor0
    /\ loss_hist = << >>
    /\ param_hist = << >>
    /\ snap_iter = -1

ArgValues == -1..MaxArg

\* AutoRound(...) is called with any small value for each checked argument;
\* QUANT_INFO_DIR is unset, or names a directory whose quant_info.json holds
\* a marker
InitNew ==
    /\ BlockIdle
    /\ CalibIdle
    /\ pc = "new"
    /\ err = "none"
    /\ args \in [bits : ArgValues, group_size : {-1, 0, 1}, batch_size : ArgValues,
                  iters : ArgValues, seqlen : ArgValues, n_blocks : ArgValues,
                  gradient_accumulate_steps : ArgValues]
    /\ attrs = NoAttrs
    /\ ckpt \in {NoCheckpoint}
                \cup {[dir |-> "absolute", marker |-> 1, model |-> << >>]}
    /\ run = [len_block_names |-> 1, n_blocks |-> 1, MAX_NUM_BLOCKS |-> 1000,
              pre_quantized_block_num |-> 0, save_checkpoint |-> FALSE,
              use_quant_input |-> TRUE]
    /\ block_i = 0
    /\ input_ids = CalibInput
    /\ q_input = None
    /\ weights = << >>
    /\ calls = << >>
    /\ saves = << >>
    /\ QuantizeIdle
    /\ TeqIdle
    /\ ExtraIdle

\* lines 525-528: a non-positive iters is replaced by 200, with a warning
ResetIters(iters) == IF iters <= 0 THEN 200 ELSE iters

\* __init__ lines 466-544: the arguments become attributes
SetAttributes ==
    /\ pc = "new"
    /\ attrs' = [bits |-> args.bits, group_size |-> args.group_size,
                 train_bs |-> args.batch_size, iters |-> ResetIters(args.iters),
                 seqlen |-> args.seqlen, n_blocks |-> args.n_blocks,
                 gradient_accumulate_steps |-> args.gradient_accumulate_steps,
                 pre_quantized_block_num |-> 0, iters_reset |-> args.iters <= 0]
    /\ pc' = "check"
    /\ UNCHANGED <<cfg, wrapper, layer, i, total_loss, best_loss, last_best_iter,
                   best_v, best_min_scale, best_max_scale, err, loss_hist, param_hist, snap_iter>>
    /\ UNCHANGED calibVars
    /\ UNCHANGED <<args, run, block_i, input_ids, q_input, weights, ckpt, calls, saves>>
    /\ UNCHANGED <<quantizeVars, teqVars, extraVars>>

\* check_configs without the seqlen assertion
check_configsMut(a) ==
    /\ a.bits > 0
    /\ a.group_size = -1 \/ a.group_size >= 1
    /\ a.train_bs > 0
    /\ a.iters > 0
    /\ a.n_blocks > 0
    /\ a.gradient_accumulate_steps > 0

\* check_configs: TRUE iff every assertion passes
check_configs(a) ==
    /\ a.bits > 0
    /\ a.group_size = -1 \/ a.group_size >= 1
    /\ a.train_bs > 0
    /\ a.iters > 0
    /\ a.seqlen > 0
    /\ a.n_blocks > 0
    /\ a.gradient_accumulate_steps > 0

\* __init__ line 545
CheckConfigs ==
    /\ pc = "check"
    /\ IF check_configs(attrs)
       THEN pc' = "post_init" /\ err' = err
       ELSE pc' = "raised" /\ err' = "AssertionError"
    /\ UNCHANGED <<cfg, wrapper, layer, i, total_loss, best_loss, last_best_iter,
                   best_v, best_min_scale, best_max_scale, loss_hist, param_hist, snap_iter>>
    /\ UNCHANGED calibVars
    /\ UNCHANGED runVars

\* __init__ lines 547-550 and _post_init: the marker is 0 unless
\* QUANT_INFO_DIR is set, and then it is read from quant_info.json
PostInit ==
    /\ pc = "post_init"
    /\ attrs' = [attrs EXCEPT !.pre_quantized_block_num =
                     IF ckpt.dir = "unset" THEN 0 ELSE ckpt.marker]
    /\ pc' = "constructed"
    /\ UNCHANGED <<cfg, wrapper, layer, i, total_loss, best_loss, last_best_iter,
                   best_v, best_min_scale, best_max_scale, err, loss_hist, param_hist, snap_iter>>
    /\ UNCHANGED calibVars
    /\ UNCHANGED <<args, run, block_i, input_ids, q_input, weights, ckpt, calls, saves>>
    /\ UNCHANGED <<quantizeVars, teqVars, extraVars>>

NextNew == SetAttributes \/ CheckConfigs \/ PostInit

SpecNew == InitNew /\ [][NextNew]_vars

\* --------------------------------------------------------- qdq_weight_round
Min(a, b) == IF a < b THEN a ELSE b

\* a slice that takes the first block of the group only
GroupAtFirst(idx, n, len) == [k \in 1..1 |-> idx + 1]
\* block_names[i : i + n_blocks], as 1-based block numbers
GroupAt(idx, n, len) == [k \in 1..(Min(idx + n, len) - idx) |-> idx + k]

\* get_block_outputs: the block (or every block of the fused group, in
\* order) is run on the tensor with the weights it has at that moment
get_block_outputs(blocks, ids, w) ==
    ids \o [k \in 1..Len(blocks) |-> <<blocks[k], w[blocks[k]]>>]

\* wrapper_block, the tuning loop and unwrapper_block together: the weights
\* of every block of the group are replaced by weights quantized in this run
Tuned(blocks, w) ==
    [b \in DOMAIN w |-> IF \E k \in 1..Len(blocks) : blocks[k] = b THEN "quant" ELSE w[b]]

\* a quant_block that tests `skip` only after the block has been tuned
quant_blockLateSkip(blocks, ids, q_in, skip, w, use_quant_input, iters) ==
    LET output == get_block_outputs(blocks, ids, w) IN
    [q_outputs |-> output, output |-> output, weights |-> Tuned(blocks, w),
     tune_in |-> ids, wrapped |-> TRUE, iters_run |-> iters]

\* a quant_block that recomputes the quantized output on the float input
quant_blockFloatIn(blocks, ids, q_in, skip, w, use_quant_input, iters) ==
    LET output == get_block_outputs(blocks, ids, w) IN
    IF skip
    THEN [q_outputs |-> output, output |-> output, weights |-> w,
          tune_in |-> None, wrapped |-> FALSE, iters_run |-> 0]
    ELSE LET tune_in == IF q_in # None THEN q_in ELSE ids
         IN [q_outputs |-> IF use_quant_input
                           THEN get_block_outputs(blocks, ids, Tuned(blocks, w))
                           ELSE None,
             output |-> output, weights |-> Tuned(blocks, w),
             tune_in |-> tune_in, wrapped |-> TRUE, iters_run |-> iters]

\* a quant_block that returns the quantized output whatever use_quant_input is
quant_blockAlwaysQ(blocks, ids, q_in, skip, w, use_quant_input, iters) ==
    LET output == get_block_outputs(blocks, ids, w) IN
    IF skip
    THEN [q_outputs |-> output, output |-> output, weights |-> w,
          tune_in |-> None, wrapped |-> FALSE, iters_run |-> 0]
    ELSE LET tune_in == IF q_in # None THEN q_in ELSE ids
         IN [q_outputs |-> get_block_outputs(blocks, tune_in, Tuned(blocks, w)),
             output |-> output, weights |-> Tuned(blocks, w),
             tune_in |-> tune_in, wrapped |-> TRUE, iters_run |-> iters]

\* quant_block: the reference output is computed first (line 957); a skipped
\* block returns it twice (958-960); otherwise the block is tuned on q_input
\* when there is one (961-962), unwrapped (1090), and the quantized output is
\* recomputed on the tuning input when use_quant_input is set (1091-1099)
quant_block(blocks, ids, q_in, skip, w, use_quant_input, iters) ==
    LET output == get_block_outputs(blocks, ids, w) IN
    IF skip
    THEN [q_outputs |-> output, output |-> output, weights |-> w,
          tune_in |-> None, wrapped |-> FALSE, iters_run |-> 0]
    ELSE LET tune_in == IF q_in # None THEN q_in ELSE ids
         IN [q_outputs |-> IF use_quant_input
                           THEN get_block_outputs(blocks, tune_in, Tuned(blocks, w))
                           ELSE None,
             output |-> output, weights |-> Tuned(blocks, w),
             tune_in |-> tune_in, wrapped |-> TRUE, iters_run |-> iters]

\* _save_model_to_local: everything runs inside try / except Exception.
\* Without QUANT_INFO_DIR self._quant_info_file_path does not exist (line
\* 1107 raises before anything is saved); without a tokenizer line 1110
\* raises after the model was saved. Line 1114 joins the directory with
\* self._quant_info_file_path, which _post_init built as
\* Path(directory) / "quant_info.json": for an absolute directory the join
\* keeps the absolute path, and for the current directory ("." or "") the
\* path is the bare file name, so in both cases the file written is the file
\* _post_init reads; for any other relative directory ("srel", "./sd") the
\* path already starts with the directory and the join names another file
_save_model_to_local(ck, tok, w, n) ==
    IF ck.dir = "unset" THEN [ckpt |-> ck, outcome |-> "no_path"]
    ELSE IF ~tok THEN [ckpt |-> [ck EXCEPT !.model = w], outcome |-> "no_tokenizer"]
    ELSE IF ck.dir = "relative"
         THEN [ckpt |-> [ck EXCEPT !.model = w], outcome |-> "other_path"]
    ELSE [ckpt |-> [ck EXCEPT !.model = w, !.marker = n], outcome |-> "written"]

\* a qdq_weight_round that skips no block
SkipTestNever(idx, marker) == FALSE
\* line 1171
SkipTest(idx, marker) == idx + 1 <= marker
\* line 1155
BoundReached(idx, bound) == idx >= bound

\* the leading blocks a run that wrote marker m can have left quantized: m
\* of them when it worked block by block, the whole group that starts at
\* block m when it worked with this n_blocks
PreQuantized(m, n, len) ==
    {Min(m, len)} \cup (IF m >= 1 /\ (m - 1) % n = 0 THEN {Min(m - 1 + n, len)} ELSE {})

\* QUANT_INFO_DIR: not set, the current directory ("." or ""), another relative
\* directory, an absolute directory
Dirs == {"unset", "current", "relative", "absolute"}
\* MAX_NUM_BLOCKS values from 0 to one more than any block count (no bound)
BlockBounds == 0..(MaxBlocks + 1)

\* qdq_weight_round is entered (lines 1144-1153) with the calibration input
\* of the first block, on a model whose leading blocks an earlier run may
\* have quantized
InitRound ==
    /\ BlockIdle
    /\ pc = "r_loop"
    /\ err = "none"
    /\ n_samples = 1
    /\ tokenizer \in BOOLEAN
    /\ forward = "orig"
    /\ orig_forward = FALSE
    /\ inputs = NoEntry
    /\ total_cnt = 0
    /\ data_new = Unbound
    /\ n_batches = 0
    /\ last_run = "none"
    /\ warned = FALSE
    /\ args = DefaultArgs
    /\ attrs = NoAttrs
    /\ \E len \in 1..MaxBlocks, n \in 1..MaxGroup, bound \in BlockBounds,
          dir \in Dirs, m \in 0..MaxBlocks, sc \in BOOLEAN, uqi \in BOOLEAN :
          /\ m <= len
          /\ dir = "unset" => m = 0
          /\ run = [len_block_names |-> len, n_blocks |-> n, MAX_NUM_BLOCKS |-> bound,
                    pre_quantized_block_num |-> m, save_checkpoint |-> sc,
                    use_quant_input |-> uqi]
          /\ \E pre \in PreQuantized(m, n, len) :
                /\ weights = [b \in 1..len |-> IF b <= pre THEN "pre" ELSE "float"]
                /\ ckpt = [dir |-> dir, marker |-> m,
                           model |-> IF m = 0 THEN << >> ELSE weights]
    /\ block_i = 0
    /\ input_ids = CalibInput
    /\ q_input = None
    /\ calls = << >>
    /\ saves = << >>
    /\ QuantizeIdle
    /\ TeqIdle
    /\ ExtraIdle

InRoundLoop == pc = "r_loop" /\ block_i < run.len_block_names

\* lines 1155-1157: exit(0) once the loop index has reached MAX_NUM_BLOCKS
BoundExit ==
    /\ InRoundLoop
    /\ BoundReached(block_i, run.MAX_NUM_BLOCKS)
    /\ pc' = "exited"
    /\ err' = "SystemExit"
    /\ UNCHANGED <<cfg, wrapper, layer, i, total_loss, best_loss, last_best_iter,
                   best_v, best_min_scale, best_max_scale, loss_hist, param_hist, snap_iter>>
    /\ UNCHANGED calibVars
    /\ UNCHANGED runVars

\* lines 1158-1186: the block or fused group is handed to quant_block
QuantBlock ==
    /\ InRoundLoop
    /\ ~BoundReached(block_i, run.MAX_NUM_BLOCKS)
    /\ LET blocks == GroupAt(block_i, run.n_blocks, run.len_block_names)
           skip == SkipTest(block_i, run.pre_quantized_block_num)
           r == quant_block(blocks, input_ids, q_input, skip, weights,
                            run.use_quant_input, cfg.iters)
       IN /\ q_input' = r.q_outputs
          /\ input_ids' = r.output
          /\ weights' = r.weights
          /\ calls' = Append(calls,
                 [i |-> block_i, blocks |-> blocks, skip |-> skip,
                  input_ids |-> input_ids, q_input |-> q_input,
                  output |-> r.output, q_outputs |-> r.q_outputs,
                  tune_in |-> r.tune_in, wrapped |-> r.wrapped,
                  iters_run |-> r.iters_run, before |-> weights, after |-> r.weights])
    /\ pc' = "r_save"
    /\ UNCHANGED <<cfg, wrapper, layer, i, total_loss, best_loss, last_best_iter,
                   best_v, best_min_scale, best_max_scale, err, loss_hist, param_hist, snap_iter>>
    /\ UNCHANGED calibVars
    /\ UNCHANGED <<args, attrs, run, block_i, ckpt, saves>>
    /\ UNCHANGED <<quantizeVars, teqVars, extraVars>>

\* lines 1187-1188, then the loop index advances by n_blocks
SaveCheckpoint ==
    /\ pc = "r_save"
    /\ IF ~SkipTest(block_i, run.pre_quantized_block_num) /\ run.save_checkpoint
       THEN LET r == _save_model_to_local(ckpt, tokenizer, weights, block_i + 1)
            IN /\ ckpt' = r.ckpt
               /\ saves' = Append(saves, [i |-> block_i, value |-> block_i + 1,
                                           outcome |-> r.outcome, weights |-> weights])
       ELSE UNCHANGED <<ckpt, saves>>
    /\ block_i' = block_i + run.n_blocks
    /\ pc' = "r_loop"
    /\ UNCHANGED <<cfg, wrapper, layer, i, total_loss, best_loss, last_best_iter,
                   best_v, best_min_scale, best_max_scale, err, loss_hist, param_hist, snap_iter>>
    /\ UNCHANGED calibVars
    /\ UNCHANGED <<args, attrs, run, input_ids, q_input, weights, calls>>
    /\ UNCHANGED <<quantizeVars, teqVars, extraVars>>

\* the range of line 1154 is exhausted: lines 1191-1196
RoundDone ==
    /\ pc = "r_loop"
    /\ block_i >= run.len_block_names
    /\ pc' = "r_done"
    /\ UNCHANGED <<cfg, wrapper, layer, i, total_loss, best_loss, last_best_iter,
                   best_v, best_min_scale, best_max_scale, err, loss_hist, param_hist, snap_iter>>
    /\ UNCHANGED calibVars
    /\ UNCHANGED runVars

NextRound == BoundExit \/ QuantBlock \/ SaveCheckpoint \/ RoundDone

SpecRound == InitRound /\ [][NextRound]_vars

\* ------------------------------------------- __init__, then quantize()
MaxWeight == 5

\* m.weight.shape[1] of every supported layer of the modelled model
InFeatures == 4

\* the supported-type modules of the model: q1 lies in the first structural
\* block, q2 in the second, lm_head outside every block
QLayers == {"q1", "q2", "lm_head"}

BlockOf(n, len) ==
    IF n = "q1" /\ len >= 1 THEN 1
    ELSE IF n = "q2" /\ len >= 2 THEN 2
    ELSE 0

Dtypes == {"fp32", "fp16", "bf16"}

\* the spacing of the values a dtype represents in the modelled range
Spacing(dt) == IF dt = "fp32" THEN 1 ELSE IF dt = "fp16" THEN 2 ELSE 4

\* tensor.to(dtype): round to the nearest representable value, ties to even
To(x, dt) ==
    LET s == Spacing(dt)
        q == x \div s
        r == x % s
    IN IF 2 * r < s THEN q * s
       ELSE IF 2 * r > s THEN (q + 1) * s
       ELSE IF q % 2 = 0 THEN q * s ELSE (q + 1) * s

\* a Python value that may be None: << >> is None, <<v>> is v
NoneValue == << >>
Some(v) == <<v>>

\* utils.check_to_quantized: layers of more than 8 bits are passed through
check_to_quantized(m) == m.attr["bits"][1] <= 8

\* utils.quant_weight: the weight on the quantization grid, and the scale
\* and zero point, here as the parameters they were computed from
quant_weight(weight, num_bits, group_size, sym, scale_dtype) ==
    [q_dq_weight |-> (weight \div 4) * 4,
     scale |-> [bits |-> num_bits, group_size |-> group_size, sym |-> sym,
                scale_dtype |-> scale_dtype],
     zp |-> IF sym THEN NoneValue ELSE Some(num_bits)]

\* lines 506-519: the dtype tuning runs in, and whether amp stays on
AmpDtype(q) ==
    IF q.device = "cpu" \/ q.device = "hpu" THEN "bf16"
    ELSE IF q.model_dtype # "fp32" THEN q.model_dtype
    ELSE "fp16"

AmpKept(q) == q.amp /\ ~(q.device = "cpu" /\ ~q.cpu_bf16)

TuningDtype(q) == IF AmpKept(q) THEN AmpDtype(q) ELSE "fp32"

ConfigKeys == {"data_type", "bits", "group_size", "sym"}

\* lines 684-706: the entry of every supported layer after configuration
set_layerwise_config(wc, q) ==
    [n \in QLayers |->
        LET e == IF n \in DOMAIN wc THEN wc[n] ELSE [k \in {} |-> 0]
        IN [k \in DOMAIN e \cup ConfigKeys \cup {"scale_dtype"} |->
               IF k = "scale_dtype" THEN Some(q.scale_dtype)
               ELSE IF k \in DOMAIN e THEN e[k]
               ELSE Some(q[k])]]

\* lines 708-712: the attributes set_layerwise_config puts on the module
ModuleAttrs(entry) ==
    [k \in ConfigKeys \cup {"scale_dtype"} |-> entry[k]]

\* the global settings AutoRound is constructed with
Globals ==
    [data_type : {"int"}, bits : {4, 16}, group_size : {-1, 2}, sym : BOOLEAN,
     scale_dtype : {"fp16"}]

\* what a per-layer entry may set
OverrideValues(k) ==
    IF k = "bits" THEN {2, 16}
    ELSE IF k = "group_size" THEN {-1, 4}
    ELSE IF k = "sym" THEN BOOLEAN
    ELSE {"fp16", "fp32"}

OverrideKeys == {"bits", "group_size", "sym", "scale_dtype"}

\* a key of an entry is left out, or set to one of its values
Opt(k) == {NoneValue} \cup {Some(v) : v \in OverrideValues(k)}

Entry(b, g, s, d) ==
    LET all == [bits |-> b, group_size |-> g, sym |-> s, scale_dtype |-> d]
    IN [k \in {x \in OverrideKeys : all[x] # NoneValue} |-> all[k]]

OverrideEntries ==
    {Entry(b, g, s, d) : b \in Opt("bits"), g \in Opt("group_size"),
                         s \in Opt("sym"), d \in Opt("scale_dtype")}

\* the weight_config argument: no entry, or an entry for one layer
Overrides ==
    {[n \in {} |-> 0]}
    \cup {[n \in {name} |-> e] :
              name \in QLayers, e \in OverrideEntries}

\* a weight_config that at most marks one layer as 16-bit
PlainOverrides ==
    {[n \in {} |-> 0]}
    \cup {[n \in {name} |-> [k \in {"bits"} |-> Some(16)]] : name \in QLayers}

Devices == {"cpu", "cuda", "hpu"}

\* one batch of the dataloader: its kind, its number of samples and whether
\* it reaches seqlen; the model call on it reaches the hooked block
LoaderBatch(kind, size, long) ==
    [kind |-> kind, size |-> size, long |-> long, outcome |-> "block"]

\* a dataloader that yields one keyed batch of two samples
PlainLoader == <<LoaderBatch("dict", 2, TRUE)>>

\* the dataloaders quantize() is run with: enough samples, fewer samples than
\* requested, batches that overshoot the request, nothing long enough, raw
\* tensors only, and no batch at all
Loaders ==
    {PlainLoader,
     <<LoaderBatch("dict", 1, TRUE)>>,
     <<LoaderBatch("dict", 2, TRUE), LoaderBatch("dict", 2, TRUE)>>,
     <<LoaderBatch("dict", 2, FALSE)>>,
     <<LoaderBatch("tensor", 2, TRUE)>>,
     << >>}

\* calib (lines 771-819) and the end of cache_block_input (839-842) over the
\* batches loader[k..], with the buffer buf self.inputs holds for the block,
\* the sample counter cnt and calib's local data_new dn: the buffer that is
\* returned, or how the call ended instead
RECURSIVE CalibFrom(_, _, _, _, _, _, _)
CalibFrom(n, tok, loader, k, buf, cnt, dn) ==
    IF k > Len(loader) \/ (cnt >= n /\ cnt > 0)
    THEN IF cnt = 0 THEN [err |-> "SystemExit", inputs |-> buf]
         ELSE IF buf = NoEntry THEN [err |-> "KeyError", inputs |-> buf]
         ELSE [err |-> "none", inputs |-> buf]
    ELSE LET b == loader[k]
             size == IF b.kind = "str" THEN 1 ELSE b.size
             dn2 == IF b.kind \in {"none", "tensor"} THEN dn ELSE Batch(size, b.long)
         IN IF b.kind = "none" THEN CalibFrom(n, tok, loader, k + 1, buf, cnt, dn)
            ELSE IF b.kind = "str" /\ ~tok THEN [err |-> "SystemExit", inputs |-> buf]
            ELSE IF ~b.long THEN CalibFrom(n, tok, loader, k + 1, buf, cnt, dn2)
            ELSE CalibFrom(n, tok, loader, k + 1, RunModel(buf, dn2, b.outcome),
                           cnt + Truncated(cnt, size, n), dn2)

\* cache_block_input(block_names[0], self.n_samples), lines 835-842
cache_block_input(n, tok, loader) == CalibFrom(n, tok, loader, 1, NoEntry, 0, Unbound)

\* lines 1249-1251: self.train_bs is lowered to the number of cached samples
\* (with a warning) when fewer were cached
ForcedTrainBs(train_bs, total_samples) ==
    IF total_samples < train_bs THEN total_samples ELSE train_bs

\* the calibration settings quantize() is run with
Calibrations == [n_samples : 2..3, batch_size : {1, 8}, dataloader : Loaders]

InitQuantize ==
    /\ BlockIdle
    /\ CalibIdle
    /\ pc = "q_new"
    /\ err = "none"
    /\ args = DefaultArgs
    /\ attrs = NoAttrs
    /\ run = [len_block_names |-> 1, n_blocks |-> 1, MAX_NUM_BLOCKS |-> 1000,
              pre_quantized_block_num |-> 0, save_checkpoint |-> FALSE,
              use_quant_input |-> TRUE]
    /\ block_i = 0
    /\ input_ids = CalibInput
    /\ q_input = None
    /\ weights = << >>
    /\ ckpt = NoCheckpoint
    /\ calls = << >>
    /\ saves = << >>
    /\ TeqIdle
    /\ ExtraIdle
    /\ \E g \in Globals, ov \in Overrides, len \in 0..2, m \in 0..1,
          dt \in Dtypes, a \in BOOLEAN, dev \in Devices, bf \in BOOLEAN,
          w \in 0..MaxWeight :
          /\ m <= len
          /\ dev # "cpu" => bf
          /\ To(w, dt) = w
          /\ \/ dt = "fp16" /\ a /\ dev = "cuda" /\ w = 4
             \/ ov \in PlainOverrides
          /\ \E cal \in IF /\ dt = "fp32" /\ ~a /\ dev = "cpu" /\ ~bf /\ w = 4
                            /\ ov = [n \in {} |-> 0]
                            /\ g.bits = 4 /\ g.group_size = 2 /\ g.sym
                            /\ len = 1 /\ m = 0
                         THEN Calibrations
                         ELSE {[n_samples |-> 2, batch_size |-> 8,
                                dataloader |-> PlainLoader]} :
             qin = [model_dtype |-> dt, amp |-> a, device |-> dev, cpu_bf16 |-> bf,
                    data_type |-> g.data_type, bits |-> g.bits,
                    group_size |-> g.group_size, sym |-> g.sym,
                    scale_dtype |-> g.scale_dtype, weight_config |-> ov,
                    len_block_names |-> len, pre_quantized_block_num |-> m,
                    weight |-> w, n_samples |-> cal.n_samples,
                    batch_size |-> cal.batch_size, dataloader |-> cal.dataloader]
          /\ model_dtype = dt
          /\ modules = [n \in QLayers |->
                 IF /\ BlockOf(n, len) \in 1..m
                    /\ set_layerwise_config(ov, g)[n]["bits"][1] <= 8
                 THEN [weight |-> (w \div 4) * 4, qdq |-> TRUE, attr |-> [k \in {} |-> 0]]
                 ELSE [weight |-> w, qdq |-> FALSE, attr |-> [k \in {} |-> 0]]]
    /\ amp = FALSE
    /\ amp_dtype = "fp16"
    /\ weight_config = [n \in {} |-> 0]
    /\ quantized = "unset"
    /\ ret = "unset"
    /\ trace = << >>

\* what quantize()'s steps leave alone
QuantizeRest ==
    /\ UNCHANGED <<cfg, wrapper, layer, i, total_loss, best_loss, last_best_iter,
                   best_v, best_min_scale, best_max_scale, loss_hist, param_hist, snap_iter>>
    /\ UNCHANGED <<tokenizer, forward, orig_forward, inputs, total_cnt, data_new,
                   n_batches, last_run, warned>>
    /\ UNCHANGED <<args, run, block_i, input_ids, q_input, weights, ckpt, calls, saves>>
    /\ UNCHANGED teqVars
    /\ UNCHANGED extraVars
    /\ UNCHANGED qin

QuantizeFrame ==
    /\ QuantizeRest
    /\ UNCHANGED <<n_samples, attrs, err>>

\* AutoRound.__init__: lines 471-519 move the model to the tuning dtype and
\* keep the arguments as attributes (n_samples line 476, train_bs line 495),
\* line 543 configures every supported layer
Construct ==
    /\ pc = "q_new"
    /\ n_samples' = qin.n_samples
    /\ attrs' = [attrs EXCEPT !.bits = qin.bits, !.group_size = qin.group_size,
                              !.train_bs = qin.batch_size]
    /\ amp' = AmpKept(qin)
    /\ amp_dtype' = AmpDtype(qin)
    /\ model_dtype' = TuningDtype(qin)
    /\ weight_config' = set_layerwise_config(qin.weight_config, qin)
    /\ modules' = [n \in QLayers |->
           [modules[n] EXCEPT !.weight = To(@, TuningDtype(qin)),
                              !.attr = ModuleAttrs(weight_config'[n])]]
    /\ pc' = "q_ready"
    /\ UNCHANGED <<quantized, ret, trace, err>>
    /\ QuantizeRest

\* lines 1235-1238: no block names
QuantizeNoBlocks ==
    /\ pc = "q_ready"
    /\ qin.len_block_names = 0
    /\ ret' = "None"
    /\ pc' = "q_returned"
    /\ UNCHANGED <<amp, amp_dtype, model_dtype, modules, weight_config, quantized, trace>>
    /\ QuantizeFrame

\* lines 1239-1251: the model goes to amp_dtype and the first block's inputs
\* are cached. cache_block_input ends quantize() when calib calls exit() or
\* when the hook never ran (KeyError at line 841); otherwise self.inputs is
\* deleted (line 1244), self.n_samples becomes the number of cached samples
\* (1247-1248) and train_bs is lowered to it
CacheBlockInput ==
    /\ pc = "q_ready"
    /\ qin.len_block_names > 0
    /\ model_dtype' = IF amp THEN amp_dtype ELSE model_dtype
    /\ modules' = [n \in QLayers |->
           [modules[n] EXCEPT !.weight = To(@, model_dtype')]]
    /\ trace' = Append(trace, [call |-> "cache_block_input", layers |-> {}])
    /\ LET r == cache_block_input(n_samples, tokenizer, qin.dataloader)
       IN IF r.err = "SystemExit"
          THEN pc' = "q_exited" /\ err' = r.err /\ UNCHANGED <<n_samples, attrs>>
          ELSE IF r.err = "KeyError"
          THEN pc' = "q_raised" /\ err' = r.err /\ UNCHANGED <<n_samples, attrs>>
          ELSE /\ pc' = "q_round"
               /\ err' = err
               /\ n_samples' = r.inputs
               /\ attrs' = [attrs EXCEPT !.train_bs = ForcedTrainBs(@, r.inputs)]
    /\ UNCHANGED <<amp, amp_dtype, weight_config, quantized, ret>>
    /\ QuantizeRest

\* the layers wrapper_block wraps in the blocks this run does not skip
WrappedLayers(ms, len, marker) ==
    {n \in QLayers : /\ BlockOf(n, len) # 0
                     /\ ~SkipTest(BlockOf(n, len) - 1, marker)
                     /\ check_to_quantized(ms[n])}

\* WrapperLinear.unwrapper, lines 116-133
UnwrapLayer(m) ==
    LET r == quant_weight(m.weight, m.attr["bits"][1], m.attr["group_size"][1],
                          m.attr["sym"][1], m.attr["scale_dtype"][1])
    IN [weight |-> r.q_dq_weight,
        qdq |-> TRUE,
        attr |-> [k \in DOMAIN m.attr \cup {"scale", "zp"} |->
                     IF k = "scale" THEN Some(r.scale)
                     ELSE IF k = "zp" THEN r.zp
                     ELSE m.attr[k]]]

\* lines 1252-1260: qdq_weight_round over all blocks, one block at a time
QdqWeightRound ==
    /\ pc = "q_round"
    /\ LET wrapped == WrappedLayers(modules, qin.len_block_names,
                                    qin.pre_quantized_block_num)
       IN /\ modules' = [n \in QLayers |->
                 IF n \in wrapped THEN UnwrapLayer(modules[n]) ELSE modules[n]]
          /\ trace' = Append(trace, [call |-> "qdq_weight_round", layers |-> wrapped])
    /\ pc' = "q_fill"
    /\ UNCHANGED <<amp, amp_dtype, model_dtype, weight_config, quantized, ret>>
    /\ QuantizeFrame

\* the g_idx of lines 1265-1272, for a group size gs
GIdx(gs) ==
    [j \in 1..InFeatures |-> IF gs <= 0 THEN 0 ELSE (j - 1) \div gs]

\* lines 1261-1285: the entry of one layer after the loop body ran for it
FillEntry(e, m, q, adt) ==
    IF "scale" \in DOMAIN m.attr
    THEN [k \in DOMAIN e \cup {"scale", "zp", "g_idx"} |->
             IF k = "scale" THEN m.attr["scale"]
             ELSE IF k = "zp" THEN m.attr["zp"]
             ELSE IF k = "g_idx" THEN Some(GIdx(q.group_size))
             ELSE e[k]]
    ELSE [k \in DOMAIN e |->
             IF k = "data_type" THEN Some(IF adt = "bf16" THEN "bfloat" ELSE "float")
             ELSE IF k = "bits" THEN Some(16)
             ELSE IF k \in {"group_size", "sym"} THEN NoneValue
             ELSE e[k]]

\* lines 1261-1285, with the delattr of lines 1273-1274
FillWeightConfig ==
    /\ pc = "q_fill"
    /\ weight_config' = [n \in DOMAIN weight_config |->
           FillEntry(weight_config[n], modules[n], qin, amp_dtype)]
    /\ modules' = [n \in QLayers |->
           [modules[n] EXCEPT !.attr =
               [k \in DOMAIN @ \ {"scale", "zp"} |-> @[k]]]]
    /\ pc' = "q_summary"
    /\ UNCHANGED <<amp, amp_dtype, model_dtype, quantized, ret, trace>>
    /\ QuantizeFrame

\* lines 1307-1309
QuantizeReturn ==
    /\ pc = "q_summary"
    /\ quantized' = "True"
    /\ model_dtype' = qin.model_dtype
    /\ modules' = [n \in QLayers |->
           [modules[n] EXCEPT !.weight = To(@, qin.model_dtype)]]
    /\ ret' = "model_and_weight_config"
    /\ pc' = "q_returned"
    /\ UNCHANGED <<amp, amp_dtype, weight_config, trace>>
    /\ QuantizeFrame

\* save_quantized, lines 1198-1227, for self.quantized = q: reading an
\* attribute that no statement has assigned raises AttributeError (line
\* 1199); a false value warns and returns (1200-1201); an unknown format
\* calls exit() (1204-1206); otherwise the exporter is called (1207-1226)
save_quantized(q, format_known) ==
    IF q = "unset" THEN [pc |-> "s_raised", err |-> "AttributeError", call |-> "none"]
    ELSE IF q # "True" THEN [pc |-> "s_warned", err |-> "none", call |-> "warning"]
    ELSE IF ~format_known THEN [pc |-> "s_exited", err |-> "SystemExit", call |-> "none"]
    ELSE [pc |-> "s_exported", err |-> "none", call |-> "export"]

\* the caller invokes save_quantized on an instance that is not inside
\* quantize(): after the constructor, or after quantize() returned
SaveQuantized(format_known) ==
    /\ pc \in {"q_ready", "q_returned"}
    /\ LET r == save_quantized(quantized, format_known)
       IN /\ pc' = r.pc
          /\ err' = r.err
          /\ trace' = IF r.call = "none" THEN trace
                      ELSE Append(trace, [call |-> r.call, layers |-> {}])
    /\ UNCHANGED <<cfg, wrapper, layer, i, total_loss, best_loss, last_best_iter,
                   best_v, best_min_scale, best_max_scale, loss_hist, param_hist, snap_iter>>
    /\ UNCHANGED calibVars
    /\ UNCHANGED <<args, attrs, run, block_i, input_ids, q_input, weights, ckpt, calls, saves>>
    /\ UNCHANGED teqVars
    /\ UNCHANGED extraVars
    /\ UNCHANGED <<qin, amp, amp_dtype, model_dtype, modules, weight_config, quantized, ret>>

NextQuantize ==
    \/ Construct
    \/ QuantizeNoBlocks
    \/ CacheBlockInput
    \/ QdqWeightRound
    \/ FillWeightConfig
    \/ QuantizeReturn
    \/ \E format_known \in BOOLEAN : SaveQuantized(format_known)

SpecQuantize == InitQuantize /\ [][NextQuantize]_vars

\* ------------------------------------ quant_block, statement by statement
MaxTrainIters == 2  \* largest iters of the statement-level loop
MaxAccum == 2       \* largest gradient_accumulate_steps
MaxPick == 2        \* largest train_bs
MaxCalib == 2       \* largest number of cached calibration samples

\* values of self.sampler: the default, the name the documentation of other
\* tools uses, and any other string
Samplers == {"rand", "random", "sequential"}

\* torch.randperm(n_samples)[:pick_samples]: the first pick_samples entries
\* of a permutation of 0..n_samples-1
randperm_pick(n, pick) ==
    {s \in [1..Min(pick, n) -> 0..(n - 1)] :
        \A a, b \in 1..Min(pick, n) : a # b => s[a] # s[b]}

\* a sampler that redraws in every iteration whatever the policy
DrawnEachIterAlways(sampler) == TRUE
\* lines 1019-1020: the policy under which every iteration draws
DrawnEachIter(sampler) == sampler = "rand"
\* lines 1005-1006: the policy under which the indices are drawn before the loop
DrawnBeforeLoop(sampler) == sampler # "rand"

\* what the block's forward computes with right now
WeightsNow(b) == IF b.wrapped THEN "wrapped" ELSE b.weight

\* self.get_block_outputs(block, ids, ...) on the block as it is
BlockOutputs(b, ids) == get_block_outputs(<<1>>, ids, [n \in {1} |-> WeightsNow(b)])

\* quant_block runs in AutoRound, AutoOPTRound or AutoAdamRound, which
\* overrides nothing of AutoOPTRound but the constructor's defaults
\* get_optimizer: AutoRound's (lines 570-585, SignRound) fixes the sign SGD
\* whatever it is handed; AutoOPTRound's (1425-1432) takes AdamW for None,
\* torch.optim's class of that name for a string
get_optimizer(cls, optimizer) ==
    IF cls = "AutoRound" THEN "SGD"
    ELSE IF optimizer = "None" THEN "AdamW"
    ELSE optimizer

\* get_scaler: AutoRound's (619-621) returns None; AutoOPTRound's (1434-1440)
\* returns a GradScaler when amp is on and the device is not a cpu. TRUE iff
\* the result is a scaler
get_scaler(cls, amp_on, device) ==
    IF cls = "AutoRound" THEN FALSE ELSE amp_on /\ device # "cpu"

\* scale_loss_and_backward: AutoRound's (623-639) multiplies the loss by
\* loss_scale_factor and back-propagates; AutoOPTRound's (1442-1449) has the
\* scaler scale the loss first when there is one. The calls, in order
scale_loss_and_backward(cls, scaler) ==
    IF cls # "AutoRound" /\ scaler THEN <<"scaler.scale", "backward">>
    ELSE <<"backward">>

\* a step without the schedule
stepNoSchedule(cls, scaler, found_inf) ==
    IF cls # "AutoRound" /\ scaler
    THEN <<"scaler.step">> \o (IF found_inf THEN << >> ELSE <<"optimizer.step">>)
         \o <<"optimizer.zero_grad", "scaler.update">>
    ELSE <<"optimizer.step", "optimizer.zero_grad">>
\* step: the calls it makes, in order. AutoRound's (lines 654-657) ignores
\* the scaler; AutoOPTRound's (1451-1463) hands the optimizer to
\* scaler.step when there is a scaler, and GradScaler.step calls
\* optimizer.step() unless the gradients hold an inf or a nan (found_inf),
\* then follow zero_grad, the schedule step and scaler.update
step(cls, scaler, found_inf) ==
    IF cls # "AutoRound" /\ scaler
    THEN <<"scaler.step">> \o (IF found_inf THEN << >> ELSE <<"optimizer.step">>)
         \o <<"optimizer.zero_grad", "lr_schedule.step", "scaler.update">>
    ELSE <<"optimizer.step", "optimizer.zero_grad", "lr_schedule.step">>

Count(seq, x) == Cardinality({k \in 1..Len(seq) : seq[k] = x})

\* a return that recomputes the reference output on the unwrapped block
quant_block_returnRecompute(use_quant_input, b, tune_in, out) ==
    [q_outputs |-> IF use_quant_input THEN BlockOutputs(b, tune_in) ELSE None,
     output |-> BlockOutputs(b, tune_in)]
\* lines 1091-1099
quant_block_return(use_quant_input, b, tune_in, out) ==
    [q_outputs |-> IF use_quant_input THEN BlockOutputs(b, tune_in) ELSE None,
     output |-> out]

\* how the instance was constructed: its class, amp, the device and the
\* optimizer argument (AutoRound takes none). Every amp / device pair for
\* AutoOPTRound, one pair that would give a subclass a scaler for the others
Policies ==
    {[cls |-> "AutoRound", amp |-> TRUE, device |-> "cuda", optimizer |-> "None"],
     [cls |-> "AutoAdamRound", amp |-> TRUE, device |-> "cuda", optimizer |-> "Adam"]}
    \cup [cls : {"AutoOPTRound"}, amp : BOOLEAN, device : {"cpu", "cuda"},
          optimizer : {"None"}]

\* quant_block is called on a float block with the cached input, and with
\* the previous block's quantized output when there is one. total_loss and
\* best_loss are kept in units of 1 / gradient_accumulate_steps
InitTrain ==
    /\ cfg \in [iters : 1..MaxTrainIters,
                dynamic_max_gap : {-1} \cup (1..MaxTrainIters),
                not_use_best_mse : BOOLEAN, enable_minmax_tuning : {TRUE},
                lr : {0}, minmax_lr : {0}, to_quant : {Layers},
                gradient_accumulate_steps : 1..MaxAccum, sampler : Samplers,
                train_bs : 1..MaxPick, n_samples : 1..MaxCalib, skip : BOOLEAN,
                policy : Policies]
    /\ pc = "b_enter"
    /\ wrapper = EmptyDict
    /\ layer = [n \in Layers |-> FloatLayer]
    /\ i = 0
    /\ total_loss = 0
    /\ best_loss = FloatMax
    /\ last_best_iter = 0
    /\ best_v = Tensor0
    /\ best_min_scale = Tensor0
    /\ best_max_scale = Tensor0
    /\ err = "none"
    /\ loss_hist = << >>
    /\ param_hist = << >>
    /\ snap_iter = -1
    /\ CalibIdle
    /\ args = DefaultArgs
    /\ attrs = NoAttrs
    /\ \E uqi \in BOOLEAN :
          run = [len_block_names |-> 1, n_blocks |-> 1, MAX_NUM_BLOCKS |-> 1000,
                 pre_quantized_block_num |-> 0, save_checkpoint |-> FALSE,
                 use_quant_input |-> uqi]
    /\ block_i = 0
    /\ input_ids = << <<0, "float">> >>
    /\ q_input \in {None, << <<0, "quant">> >>}
    /\ weights = << >>
    /\ ckpt = NoCheckpoint
    /\ calls = << >>
    /\ saves = << >>
    /\ QuantizeIdle
    /\ TeqIdle
    /\ SharedIdle
    /\ WrapIdle
    /\ block = [weight |-> "float", wrapped |-> FALSE, steps |-> 0, scaler |-> FALSE,
                optimizer |-> get_optimizer(cfg.policy.cls, cfg.policy.optimizer)]
    /\ indices = << >>
    /\ block_output = << >>
    /\ acc = 0
    /\ returned = << >>
    /\ draw_at = -1
    /\ events = << >>
    /\ n_opt = 0
    /\ n_sched = 0

TrainFrame ==
    /\ UNCHANGED <<cfg, wrapper, layer, best_v, best_min_scale, best_max_scale, err,
                   loss_hist, param_hist, snap_iter>>
    /\ UNCHANGED calibVars
    /\ UNCHANGED <<args, attrs, run, block_i, input_ids, q_input, weights, ckpt, calls, saves>>
    /\ UNCHANGED <<quantizeVars, teqVars, sharedVars, wrapVars>>

\* the input the block is tuned on (lines 961-962)
TuneInput == IF q_input # None THEN q_input ELSE input_ids

\* lines 957-1016: the reference output is computed, a skipped block
\* returns it twice; otherwise the block is wrapped, the indices are drawn
\* here unless the policy is "rand", and get_scaler() is asked for the
\* scaler (line 1015)
TrainEnter ==
    /\ pc = "b_enter"
    /\ block_output' = BlockOutputs(block, input_ids)
    /\ IF cfg.skip
       THEN /\ returned' = [q_outputs |-> block_output', output |-> block_output']
            /\ pc' = "b_returned"
            /\ UNCHANGED <<block, indices, best_loss, last_best_iter>>
       ELSE /\ block' = [block EXCEPT !.wrapped = TRUE,
                                      !.scaler = get_scaler(cfg.policy.cls, cfg.policy.amp,
                                                            cfg.policy.device)]
            /\ IF DrawnBeforeLoop(cfg.sampler)
               THEN indices' \in randperm_pick(cfg.n_samples, cfg.train_bs)
               ELSE UNCHANGED indices
            /\ last_best_iter' = 0
            /\ best_loss' = FloatMax * cfg.gradient_accumulate_steps
            /\ pc' = "b_iter"
            /\ UNCHANGED returned
    /\ UNCHANGED <<i, total_loss, acc, draw_at, events, n_opt, n_sched>>
    /\ TrainFrame

\* lines 1017-1022: an iteration begins
IterStart ==
    /\ pc = "b_iter"
    /\ i < cfg.iters
    /\ IF DrawnEachIter(cfg.sampler)
       THEN /\ indices' \in randperm_pick(cfg.n_samples, cfg.train_bs)
            /\ draw_at' = i
       ELSE UNCHANGED <<indices, draw_at>>
    /\ total_loss' = 0
    /\ acc' = 0
    /\ events' = << >>
    /\ pc' = "b_acc"
    /\ UNCHANGED <<i, best_loss, last_best_iter, block, block_output, returned, n_opt, n_sched>>
    /\ TrainFrame

\* lines 1023-1059: one accumulation pass on the samples `indices` selects:
\* forward, loss against output[indices], its value added to total_loss,
\* then self.scale_loss_and_backward(scaler, loss)
Backward(loss) ==
    /\ pc = "b_acc"
    /\ acc < cfg.gradient_accumulate_steps
    /\ total_loss' = total_loss + loss
    /\ events' = events \o scale_loss_and_backward(cfg.policy.cls, block.scaler)
    /\ acc' = acc + 1
    /\ pc' = IF acc' = cfg.gradient_accumulate_steps THEN "b_best" ELSE "b_acc"
    /\ UNCHANGED <<i, best_loss, last_best_iter, block, indices, block_output, returned,
                   draw_at, n_opt, n_sched>>
    /\ TrainFrame

\* lines 1062-1075: best-loss tracking and the early-stop test
BestAndBreak ==
    /\ pc = "b_best"
    /\ best_loss' = NewBestLoss(cfg, total_loss, best_loss)
    /\ last_best_iter' = IF Improves(total_loss, best_loss) /\ ~cfg.not_use_best_mse
                         THEN i ELSE last_best_iter
    /\ pc' = IF ShouldBreak(cfg, i, last_best_iter') THEN "b_after" ELSE "b_step"
    /\ UNCHANGED <<i, total_loss, block, indices, block_output, acc, returned, draw_at,
                   events, n_opt, n_sched>>
    /\ TrainFrame

\* line 1076: self.step(scaler, optimizer, lr_schedule), then the next i;
\* found_inf tells whether a scaler finds an inf or a nan in the gradients
OptStep(found_inf) ==
    /\ pc = "b_step"
    /\ found_inf => block.scaler
    /\ LET made == step(cfg.policy.cls, block.scaler, found_inf)
       IN /\ events' = events \o made
          /\ n_opt' = n_opt + Count(made, "optimizer.step")
          /\ n_sched' = n_sched + Count(made, "lr_schedule.step")
          /\ block' = [block EXCEPT !.steps = @ + Count(made, "optimizer.step")]
    /\ i' = i + 1
    /\ pc' = IF i' < cfg.iters THEN "b_iter" ELSE "b_after"
    /\ UNCHANGED <<total_loss, best_loss, last_best_iter, indices, block_output, acc,
                   returned, draw_at>>
    /\ TrainFrame

\* lines 1077-1090: unwrapper_block writes the quantized weights
TrainUnwrap ==
    /\ pc = "b_after"
    /\ block' = [block EXCEPT !.wrapped = FALSE, !.weight = "quant"]
    /\ pc' = "b_unwrapped"
    /\ UNCHANGED <<i, total_loss, best_loss, last_best_iter, indices, block_output, acc,
                   returned, draw_at, events, n_opt, n_sched>>
    /\ TrainFrame

\* lines 1091-1099
TrainReturn ==
    /\ pc = "b_unwrapped"
    /\ returned' = quant_block_return(run.use_quant_input, block, TuneInput, block_output)
    /\ pc' = "b_returned"
    /\ UNCHANGED <<i, total_loss, best_loss, last_best_iter, block, indices, block_output,
                   acc, draw_at, events, n_opt, n_sched>>
    /\ TrainFrame

NextTrain ==
    \/ TrainEnter
    \/ IterStart
    \/ \E loss \in 0..MaxLoss : Backward(loss)
    \/ BestAndBreak
    \/ \E found_inf \in BOOLEAN : OptStep(found_inf)
    \/ TrainUnwrap
    \/ TrainReturn

SpecTrain == InitTrain /\ [][NextTrain]_vars

\* ------------------------------- WrapperLinear, WrapperTransformerConv1d
LayerKinds == {"Linear", "Conv1D"}

\* the attributes WrapperLinear.__init__ (lines 82-103) and
\* WrapperTransformerConv1d.__init__ (lines 187-202) assign, besides orig_layer
LinearAttrs == {"num_bits", "group_size", "scale_dtype", "sym", "value",
                "enable_minmax_tuning", "min_scale", "max_scale"}
Conv1dAttrs == {"num_bits", "group_size", "sym", "weight_t", "value",
                "min_scale", "max_scale"}

WrapperInit(m, enable_minmax_tuning) ==
    [kind |-> m.kind,
     attr |-> [k \in (IF m.kind = "Linear" THEN LinearAttrs ELSE Conv1dAttrs) |->
                  IF k = "num_bits" THEN Some(m.bits)
                  ELSE IF k = "group_size" THEN Some(m.group_size)
                  ELSE IF k = "scale_dtype" THEN Some(m.scale_dtype)
                  ELSE IF k = "sym" THEN Some(m.sym)
                  ELSE IF k = "enable_minmax_tuning" THEN Some(enable_minmax_tuning)
                  ELSE IF k = "weight_t" THEN Some(m.weight)
                  ELSE Some(0)]]

\* the wrapper attributes forward and unwrapper hand to quant_weight (lines
\* 119-128, 149-158, 217-219, 238-247)
QuantWeightReads == {"num_bits", "group_size", "sym", "value", "min_scale",
                     "max_scale", "scale_dtype"}

\* the attributes whose read raises AttributeError
Missing(w) == QuantWeightReads \ DOMAIN w.attr

\* tensor.to("cpu")
ToCpu(t) == [t EXCEPT !.device = "cpu"]

\* forward, lines 135-160 and 226-252
wrapper_forward(w) == IF Missing(w) = {} THEN "none" ELSE "AttributeError"

\* unwrapper, lines 105-133 and 204-224: the layer afterwards and the
\* exception that left the call. WrapperLinear stores zp as None when
\* quant_weight returned None; WrapperTransformerConv1d calls zp.to("cpu")
\* unconditionally, after weight and scale were already stored
wrapper_unwrapper(w, m) ==
    IF Missing(w) # {} THEN [layer |-> m, err |-> "AttributeError"]
    ELSE LET r == quant_weight(m.weight, w.attr["num_bits"][1], w.attr["group_size"][1],
                               w.attr["sym"][1], w.attr["scale_dtype"][1])
             scale == ToCpu([value |-> r.scale, device |-> m.device])
             stored == [m EXCEPT !.weight = r.q_dq_weight,
                                 !.meta = [k \in {"scale"} |-> Some(scale)]]
             zp == IF r.zp = NoneValue THEN NoneValue
                   ELSE Some(ToCpu([value |-> r.zp[1], device |-> m.device]))
         IN IF w.kind = "Conv1D" /\ r.zp = NoneValue
            THEN [layer |-> stored, err |-> "AttributeError"]
            ELSE [layer |-> [stored EXCEPT !.meta =
                                [k \in {"scale", "zp"} |->
                                    IF k = "scale" THEN Some(scale) ELSE zp]],
                  err |-> "none"]

\* the bit widths check_to_quantized lets wrapper_block wrap
WrapBits == {2, 4, 8}

\* one supported layer as set_layerwise_config left it (lines 708-712)
InitWrap ==
    /\ BlockIdle
    /\ CalibIdle
    /\ pc = "w_new"
    /\ err = "none"
    /\ args = DefaultArgs
    /\ attrs = NoAttrs
    /\ run = [len_block_names |-> 1, n_blocks |-> 1, MAX_NUM_BLOCKS |-> 1000,
              pre_quantized_block_num |-> 0, save_checkpoint |-> FALSE,
              use_quant_input |-> TRUE]
    /\ block_i = 0
    /\ input_ids = CalibInput
    /\ q_input = None
    /\ weights = << >>
    /\ ckpt = NoCheckpoint
    /\ calls = << >>
    /\ saves = << >>
    /\ QuantizeIdle
    /\ TeqIdle
    /\ SharedIdle
    /\ TrainIdle
    /\ \E kind \in LayerKinds, b \in WrapBits, gs \in {-1, 2}, s \in BOOLEAN,
          dt \in Dtypes, dev \in {"cpu", "cuda"}, w \in 0..MaxWeight :
          orig_layer = [kind |-> kind, bits |-> b, group_size |-> gs, sym |-> s,
                        scale_dtype |-> dt, device |-> dev, weight |-> w,
                        meta |-> [k \in {} |-> 0]]
    /\ wrapper_obj = [n \in {} |-> 0]

WrapFrame ==
    /\ UNCHANGED <<cfg, wrapper, layer, i, total_loss, best_loss, last_best_iter,
                   best_v, best_min_scale, best_max_scale, loss_hist, param_hist, snap_iter>>
    /\ UNCHANGED calibVars
    /\ UNCHANGED <<args, attrs, run, block_i, input_ids, q_input, weights, ckpt, calls, saves>>
    /\ UNCHANGED <<quantizeVars, teqVars, sharedVars, trainVars>>

\* wrapper_block, lines 286-331, for this layer
WrapOne(enable_minmax_tuning) ==
    /\ pc = "w_new"
    /\ wrapper_obj' = WrapperInit(orig_layer, enable_minmax_tuning)
    /\ pc' = "w_wrapped"
    /\ UNCHANGED <<err, orig_layer>>
    /\ WrapFrame

\* the wrapper's forward is called
ForwardOne ==
    /\ pc \in {"w_wrapped", "w_ran"}
    /\ err' = wrapper_forward(wrapper_obj)
    /\ pc' = IF err' = "none" THEN "w_ran" ELSE "w_raised"
    /\ UNCHANGED <<orig_layer, wrapper_obj>>
    /\ WrapFrame

\* unwrapper_block, lines 356-370, for this layer
UnwrapOne ==
    /\ pc \in {"w_wrapped", "w_ran"}
    /\ LET r == wrapper_unwrapper(wrapper_obj, orig_layer)
       IN /\ orig_layer' = r.layer
          /\ err' = r.err
          /\ pc' = IF r.err = "none" THEN "w_unwrapped" ELSE "w_raised"
    /\ UNCHANGED wrapper_obj
    /\ WrapFrame

NextWrap ==
    \/ \E enable_minmax_tuning \in BOOLEAN : WrapOne(enable_minmax_tuning)
    \/ ForwardOne
    \/ UnwrapOne

SpecWrap == InitWrap /\ [][NextWrap]_vars

\* ------------------------- two instances and the default weight_config
Instances == {"a", "b"}
NoConfig == [n \in {} |-> 0]

\* `weight_config: dict = {}` (line 439) is evaluated once, when the class
\* body is executed; `self.weight_config = weight_config` (line 490) binds
\* every instance constructed without the argument to that one object
WeightConfigOf(x) == default_weight_config

\* the weight_config of the same instance in the run where every
\* constructor is handed a dict of its own (weight_config={}): nothing of
\* another instance reaches it, and its modules (own_attr) are configured
\* from its entries
WeightConfigOwn(x) == instances[x].own
\* the modules of an instance's model after qdq_weight_round: the layers
\* inside a block that check_to_quantized accepts carry scale and zp
AfterRound(attr) ==
    [n \in QLayers |->
        LET m == [weight |-> 0, qdq |-> FALSE, attr |-> attr[n]]
        IN IF BlockOf(n, 2) # 0 /\ check_to_quantized(m) THEN UnwrapLayer(m) ELSE m]

\* lines 1261-1285 applied to a weight_config dict
FillAll(wc, ms, g) ==
    [n \in DOMAIN wc |-> FillEntry(wc[n], ms[n], g, "fp16")]

\* two models of the same architecture are about to be quantized, each with
\* its own global settings and no weight_config argument
InitShared ==
    /\ BlockIdle
    /\ CalibIdle
    /\ pc = "i_two"
    /\ err = "none"
    /\ args = DefaultArgs
    /\ attrs = NoAttrs
    /\ run = [len_block_names |-> 1, n_blocks |-> 1, MAX_NUM_BLOCKS |-> 1000,
              pre_quantized_block_num |-> 0, save_checkpoint |-> FALSE,
              use_quant_input |-> TRUE]
    /\ block_i = 0
    /\ input_ids = CalibInput
    /\ q_input = None
    /\ weights = << >>
    /\ ckpt = NoCheckpoint
    /\ calls = << >>
    /\ saves = << >>
    /\ QuantizeIdle
    /\ TeqIdle
    /\ WrapIdle
    /\ TrainIdle
    /\ default_weight_config = NoConfig
    /\ \E ga \in Globals, gb \in Globals :
          instances = [x \in Instances |->
              [state |-> "none", g |-> IF x = "a" THEN ga ELSE gb,
               attr |-> NoConfig, own |-> NoConfig, own_attr |-> NoConfig]]

SharedFrame ==
    /\ UNCHANGED blockVars
    /\ UNCHANGED <<wrapVars, trainVars>>
    /\ UNCHANGED calibVars
    /\ UNCHANGED <<args, attrs, run, block_i, input_ids, q_input, weights, ckpt, calls, saves>>
    /\ UNCHANGED <<quantizeVars, teqVars>>

\* AutoRound(model_x, tokenizer, **g) without weight_config: line 490 takes
\* the default object, line 543 fills it in place and sets the modules'
\* attributes from its entries
ConstructInstance(x) ==
    /\ instances[x].state = "none"
    /\ LET g == instances[x].g
           wc == set_layerwise_config(WeightConfigOf(x), g)
           own == set_layerwise_config(WeightConfigOwn(x), g)
       IN /\ default_weight_config' = wc
          /\ instances' = [instances EXCEPT
                 ![x].state = "constructed",
                 ![x].attr = [n \in QLayers |-> ModuleAttrs(wc[n])],
                 ![x].own = own,
                 ![x].own_attr = [n \in QLayers |-> ModuleAttrs(own[n])]]
    /\ SharedFrame

\* x.quantize(): after the blocks were tuned, lines 1261-1285 write scale,
\* zp and g_idx, or the 16-bit marking, into self.weight_config
QuantizeInstance(x) ==
    /\ instances[x].state = "constructed"
    /\ LET ms == AfterRound(instances[x].attr)
           own_ms == AfterRound(instances[x].own_attr)
       IN /\ default_weight_config' = FillAll(WeightConfigOf(x), ms, instances[x].g)
          /\ instances' = [instances EXCEPT
                 ![x].state = "quantized",
                 ![x].own = FillAll(WeightConfigOwn(x), own_ms, instances[x].g)]
    /\ SharedFrame

NextShared ==
    \/ \E x \in Instances : ConstructInstance(x)
    \/ \E x \in Instances : QuantizeInstance(x)

SpecShared == InitShared /\ [][NextShared]_vars

\* ------------------------------------ teq_util: replace_ and absorb_mul_
MaxTeqWeight == 2
MaxHidden == 2

RECURSIVE GCD(_, _)
GCD(a, b) == IF b = 0 THEN a ELSE GCD(b, a % b)

\* exact positive fractions <<numerator, denominator>> in lowest terms
Reduce(n, d) == <<n \div GCD(n, d), d \div GCD(n, d)>>
Rat(n) == <<n, 1>>
RMul(a, b) == Reduce(a[1] * b[1], a[2] * b[2])
RDiv(a, b) == Reduce(a[1] * b[2], a[2] * b[1])
RAdd(a, b) == Reduce(a[1] * b[2] + b[1] * a[2], a[2] * b[2])

\* the parameter-bearing modules of a LlamaDecoderLayer, by name
Norms == {"input_layernorm", "post_attention_layernorm"}
AttnLinears == {"self_attn.q_proj", "self_attn.k_proj", "self_attn.v_proj",
                "self_attn.o_proj"}
MlpLinears == {"mlp.gate_proj", "mlp.up_proj", "mlp.down_proj"}
TeqNames == Norms \cup AttnLinears \cup MlpLinears

\* what a name of the block refers to: the module `base`, inside the
\* wrappers `wraps` (outermost first), each <<kind, ScaleMod identity>>;
\* the block also carries weight0, the weights it started with (history)
Plain(name) == [wraps |-> << >>, base |-> name]

PairInfo(prev, names) == [prev_op_name |-> prev, layer_names |-> names]

\* awq's get_layers_for_scaling for Llama, as _create_layer_info keeps it
LlamaPairs ==
    << PairInfo("input_layernorm",
                <<"self_attn.q_proj", "self_attn.k_proj", "self_attn.v_proj">>),
       PairInfo("self_attn.v_proj", <<"self_attn.o_proj">>),
       PairInfo("post_attention_layernorm", <<"mlp.gate_proj", "mlp.up_proj">>),
       PairInfo("mlp.up_proj", <<"mlp.down_proj">>) >>

\* the same without the v_proj -> o_proj pair (shapes differ), and the
\* full list in the opposite order
PairLists ==
    {LlamaPairs,
     <<LlamaPairs[1], LlamaPairs[3], LlamaPairs[4]>>,
     <<LlamaPairs[4], LlamaPairs[3], LlamaPairs[2], LlamaPairs[1]>>}

\* ScaleMod.__init__: scales = ones, a Parameter
ScaleMod == [scales |-> 1, requires_grad |-> TRUE]

\* a freeze that does not pass over the wrappers: freeze_mod_ on the module
freeze_modAll(term, L, S) ==
    [layer |-> [L EXCEPT !.requires_grad[term.base] = FALSE],
     scales |-> [k \in DOMAIN S |->
                    IF \E j \in DOMAIN term.wraps : term.wraps[j][2] = k
                    THEN [S[k] EXCEPT !.requires_grad = FALSE] ELSE S[k]]]
\* freeze_mod_with_filter_: MulLinear, DivLinear and ScaleMod are passed
\* over, the module inside them gets requires_grad = False
freeze_mod_with_filter_(term, L, S) ==
    [layer |-> [L EXCEPT !.requires_grad[term.base] = FALSE],
     scales |-> S]

\* MulLinear(linear, scale_mod) / DivLinear(linear, scale_mod) put at `name`
Wrap(kind, name, id, L, S) ==
    LET fr == freeze_mod_with_filter_(L.mods[name], L, S)
    IN [layer |-> [fr.layer EXCEPT !.mods[name].wraps = <<<<kind, id>>>> \o @],
        scales |-> fr.scales,
        err |-> "none"]

RECURSIVE WrapLayers(_, _, _, _, _)
\* lines 113-115: the loop over layer_names, from position k on
WrapLayers(k, names, id, L, S) ==
    IF k > Len(names) THEN [layer |-> L, scales |-> S, err |-> "none"]
    ELSE LET r == Wrap("Mul", names[k], id, L, S)
         IN WrapLayers(k + 1, names, id, r.layer, r.scales)

RECURSIVE ReplaceFrom(_, _, _, _)
\* replace_, lines 105-117, from pair p on; first_layer.in_features exists
\* on a Linear only
ReplaceFrom(p, pairs, L, S) ==
    IF p > Len(pairs) THEN [layer |-> L, scales |-> S, err |-> "none"]
    ELSE IF L.mods[pairs[p].layer_names[1]].wraps # << >>
    THEN [layer |-> L, scales |-> S, err |-> "AttributeError"]
    ELSE LET S1 == Append(S, ScaleMod)
             id == Len(S1)
             r == WrapLayers(1, pairs[p].layer_names, id, L, S1)
             d == Wrap("Div", pairs[p].prev_op_name, id, r.layer, r.scales)
         IN ReplaceFrom(p + 1, pairs, d.layer, d.scales)

replace_(L, pairs) == ReplaceFrom(1, pairs, L, << >>)

\* set_module_name(block, name, module.linear)
Strip(L, name) == [L EXCEPT !.mods[name].wraps = Tail(@)]

RECURSIVE StripLayers(_, _, _)
StripLayers(k, names, L) ==
    IF k > Len(names) THEN [layer |-> L, err |-> "none"]
    ELSE IF L.mods[names[k]].wraps = << >>
    THEN [layer |-> L, err |-> "AttributeError"]
    ELSE StripLayers(k + 1, names, Strip(L, names[k]))

RECURSIVE RevertFrom(_, _, _, _, _)
\* _revert_replace, lines 120-131: the pairs from p down to 1; a module
\* without .linear raises; the list is returned in the order of the pairs
RevertFrom(p, pairs, L, S, lst) ==
    IF p < 1 THEN [layer |-> L, scale_lst |-> lst, err |-> "none"]
    ELSE IF L.mods[pairs[p].prev_op_name].wraps = << >>
    THEN [layer |-> L, scale_lst |-> lst, err |-> "AttributeError"]
    ELSE LET div == L.mods[pairs[p].prev_op_name].wraps[1]
             L1 == Strip(L, pairs[p].prev_op_name)
             r == StripLayers(1, pairs[p].layer_names, L1)
             item == [prev_op_name |-> pairs[p].prev_op_name,
                      layer_names |-> pairs[p].layer_names,
                      scales |-> S[div[2]].scales]
         IN IF r.err # "none"
            THEN [layer |-> r.layer, scale_lst |-> lst, err |-> r.err]
            ELSE RevertFrom(p - 1, pairs, r.layer, S, <<item>> \o lst)

\* a revert that undoes the first pair only
_revert_replaceFirstPair(L, pairs, S) == RevertFrom(1, pairs, L, S, << >>)
_revert_replace(L, pairs, S) == RevertFrom(Len(pairs), pairs, L, S, << >>)

RECURSIVE MulWeights(_, _, _, _)
MulWeights(k, names, s, L) ==
    IF k > Len(names) THEN L
    ELSE MulWeights(k + 1, names, s,
                    [L EXCEPT !.weight[names[k]] = RMul(@, Rat(s))])

RECURSIVE apply_scale(_, _, _)
\* awq.quantize.scale.apply_scale, called at line 136: the previous op's
\* weight is divided by the scales, the layers' weights are multiplied
apply_scale(k, lst, L) ==
    IF k > Len(lst) THEN L
    ELSE LET L1 == [L EXCEPT !.weight[lst[k].prev_op_name]
                                  = RDiv(@, Rat(lst[k].scales))]
         IN apply_scale(k + 1, lst, MulWeights(1, lst[k].layer_names, lst[k].scales, L1))

\* absorb_mul_, lines 134-136
absorb_mul_(L, pairs, S) ==
    LET r == _revert_replace(L, pairs, S)
    IN IF r.err # "none" THEN [layer |-> r.layer, err |-> r.err]
       ELSE [layer |-> apply_scale(1, r.scale_lst, r.layer), err |-> "none"]

RECURSIVE Call(_, _, _, _, _)
\* the forward of what `name` refers to, from wrapper k inwards:
\* MulLinear.forward lines 68-71, DivLinear.forward lines 55-58, and the
\* wrapped module itself as a multiplication by its weight
Call(k, name, x, L, S) ==
    LET term == L.mods[name]
    IN IF k > Len(term.wraps) THEN RMul(L.weight[term.base], x)
       ELSE IF term.wraps[k][1] = "Mul"
       THEN Call(k + 1, name, RMul(x, Rat(S[term.wraps[k][2]].scales)), L, S)
       ELSE RDiv(Call(k + 1, name, x, L, S), Rat(S[term.wraps[k][2]].scales))

\* the attention weight of a score: bounded, and not linear in the score
Softmax(z) == Rat(1 + ((z[1] \div z[2]) % 2))

\* LlamaDecoderLayer.forward on one scalar feature: the attention output
\* is a bounded function of q * k times v, the MLP is down(gate * up)
DecoderForward(x, L, S) ==
    LET h == Call(1, "input_layernorm", Rat(x), L, S)
        q == Call(1, "self_attn.q_proj", h, L, S)
        k == Call(1, "self_attn.k_proj", h, L, S)
        v == Call(1, "self_attn.v_proj", h, L, S)
        o == Call(1, "self_attn.o_proj", RMul(Softmax(RMul(q, k)), v), L, S)
        h2 == RAdd(Rat(x), o)
        m == Call(1, "post_attention_layernorm", h2, L, S)
        g == Call(1, "mlp.gate_proj", m, L, S)
        u == Call(1, "mlp.up_proj", m, L, S)
        d == Call(1, "mlp.down_proj", RMul(g, u), L, S)
    IN RAdd(h2, d)

\* get_tranable_params: the parameters the block reaches that require grad
TrainableScales ==
    {k \in DOMAIN scale_mods :
        /\ scale_mods[k].requires_grad
        /\ \E n \in TeqNames : \E j \in DOMAIN llama_decoder_layer.mods[n].wraps :
               llama_decoder_layer.mods[n].wraps[j][2] = k}

TrainableWeights == {n \in TeqNames : llama_decoder_layer.requires_grad[n]}

get_tranable_params ==
    {<<"scales", k>> : k \in TrainableScales}
    \cup {<<"weight", n>> : n \in TrainableWeights}

InitTeq ==
    /\ BlockIdle
    /\ CalibIdle
    /\ pc = "t_new"
    /\ err = "none"
    /\ args = DefaultArgs
    /\ attrs = NoAttrs
    /\ run = [len_block_names |-> 1, n_blocks |-> 1, MAX_NUM_BLOCKS |-> 1000,
              pre_quantized_block_num |-> 0, save_checkpoint |-> FALSE,
              use_quant_input |-> TRUE]
    /\ block_i = 0
    /\ input_ids = CalibInput
    /\ q_input = None
    /\ weights = << >>
    /\ ckpt = NoCheckpoint
    /\ calls = << >>
    /\ saves = << >>
    /\ QuantizeIdle
    /\ ExtraIdle
    /\ \E a \in 1..MaxTeqWeight, b \in 1..MaxTeqWeight, c \in 1..MaxTeqWeight,
          rg \in BOOLEAN :
          llama_decoder_layer =
              [mods |-> [n \in TeqNames |-> Plain(n)],
               weight |-> [n \in TeqNames |->
                              IF n \in Norms THEN Rat(a)
                              ELSE IF n \in AttnLinears THEN Rat(b) ELSE Rat(c)],
               requires_grad |-> [n \in TeqNames |-> rg],
               weight0 |-> [n \in TeqNames |->
                              IF n \in Norms THEN Rat(a)
                              ELSE IF n \in AttnLinears THEN Rat(b) ELSE Rat(c)]]
    /\ module_pairs_info \in PairLists
    /\ scale_mods = << >>
    /\ hidden_states \in 1..MaxHidden
    /\ output_ref = DecoderForward(hidden_states, llama_decoder_layer, scale_mods)

TeqFrame ==
    /\ UNCHANGED <<cfg, wrapper, layer, i, total_loss, best_loss, last_best_iter,
                   best_v, best_min_scale, best_max_scale, loss_hist, param_hist, snap_iter>>
    /\ UNCHANGED calibVars
    /\ UNCHANGED <<args, attrs, run, block_i, input_ids, q_input, weights, ckpt, calls, saves>>
    /\ UNCHANGED quantizeVars
    /\ UNCHANGED extraVars
    /\ UNCHANGED <<module_pairs_info, hidden_states, output_ref>>

\* replace_(llama_decoder_layer, module_pairs_info)
Replace ==
    /\ pc = "t_new"
    /\ LET r == replace_(llama_decoder_layer, module_pairs_info)
       IN /\ llama_decoder_layer' = r.layer
          /\ scale_mods' = r.scales
          /\ err' = r.err
          /\ pc' = IF r.err = "none" THEN "t_replaced" ELSE "raised"
    /\ TeqFrame

\* between replace_ and absorb_mul_ nothing in the module changes a scale:
\* quant_block_ (lines 346-350) is defined inside test_flow and never called,
\* and holds no optimizer step; the scales keep the ones ScaleMod gives them
\* absorb_mul_(llama_decoder_layer, module_pairs_info)
AbsorbMul ==
    /\ pc = "t_replaced"
    /\ LET r == absorb_mul_(llama_decoder_layer, module_pairs_info, scale_mods)
       IN /\ llama_decoder_layer' = r.layer
          /\ err' = r.err
          /\ pc' = IF r.err = "none" THEN "t_absorbed" ELSE "raised"
    /\ UNCHANGED scale_mods
    /\ TeqFrame

NextTeq == Replace \/ AbsorbMul

SpecTeq == InitTeq /\ [][NextTeq]_vars

\* ------------------------------------------------- properties: quant_block
SetMin(S) == CHOOSE x \in S : \A y \in S : x <= y
\* the smaller of torch.finfo(torch.float).max and the first j losses of h
RunMin(h, j) == SetMin({FloatMax} \cup {h[m] : m \in 1..j})
\* iteration idx (0-based) of h brought a loss below everything before it
ImprovedAt(h, idx) == h[idx + 1] < RunMin(h, idx)
HasImprovement(h) == \E idx \in 0..(Len(h) - 1) : ImprovedAt(h, idx)
LastImprovement(h) ==
    CHOOSE idx \in 0..(Len(h) - 1) :
        /\ ImprovedAt(h, idx)
        /\ \A j \in (idx + 1)..(Len(h) - 1) : ~ImprovedAt(h, j)
\* first iteration (0-based) whose loss is the least of h
EarliestMin(h) ==
    CHOOSE idx \in 0..(Len(h) - 1) :
        /\ \A j \in 0..(Len(h) - 1) : h[idx + 1] <= h[j + 1]
        /\ \A j \in 0..(idx - 1) : h[j + 1] > h[idx + 1]
LoopLeft == pc \in {"unwrap", "done", "raised"}
BestTracking == ~cfg.not_use_best_mse
\* the three snapshot variables hold what collect_* return on wrappers w
SnapshotOf(w) ==
    /\ best_v = Dict([n \in DOMAIN w |-> w[n].value])
    /\ best_min_scale = Dict([n \in DOMAIN w |-> w[n].min_scale])
    /\ best_max_scale = Dict([n \in DOMAIN w |-> w[n].max_scale])
NoSnapshot == best_v = Tensor0 /\ best_min_scale = Tensor0 /\ best_max_scale = Tensor0
InRange(x) == -1 <= x /\ x <= 0

\* C1: with best tracking and dynamic_max_gap = g > 0, when the last strict
\* improvement of the loss was at iteration k, no iteration beyond k + g is
\* executed, and if k + g < iters the loop is left at iteration k + g.
C1_EarlyStopAtGap ==
    (BestTracking /\ cfg.dynamic_max_gap > 0 /\ HasImprovement(loss_hist)) =>
        LET k == LastImprovement(loss_hist)
            g == cfg.dynamic_max_gap
        IN /\ Len(loss_hist) <= k + g + 1
           /\ (LoopLeft /\ k + g < cfg.iters) => (i = k + g /\ Len(loss_hist) = k + g + 1)

\* C1 witness: g = 5, the loss improved at iteration 0 only and stayed flat,
\* and the loop was left at iteration 5 with budget to spare
C1_Witness ==
    /\ pc = "unwrap" /\ BestTracking
    /\ cfg.dynamic_max_gap = 5 /\ cfg.iters = 7
    /\ loss_hist = <<1, 1, 1, 1, 1, 1>>
    /\ i = 5

\* C2 as stated: a snapshot is taken in iteration i exactly when its loss is
\* strictly below every earlier iteration's loss.
C2_Original ==
    (BestTracking /\ pc = "step") =>
        ((snap_iter = i) <=> (\A j \in 1..i : loss_hist[i + 1] < loss_hist[j]))

\* C2 amended: with best tracking, a snapshot is taken in iteration i exactly
\* when its loss is below finfo.max and below every earlier loss; the recorded
\* index is set in the same iteration; the snapshot is the parameters that
\* iteration's forward used; at loop exit, if a snapshot exists, the recorded
\* index is the earliest iteration attaining the least loss.
C2_SnapshotOnImprovement ==
    BestTracking =>
        /\ pc = "step" => ((snap_iter = i) <=> ImprovedAt(loss_hist, i))
        /\ snap_iter # -1 =>
              /\ last_best_iter = snap_iter
              /\ pc \in {"step", "forward", "unwrap"} => SnapshotOf(param_hist[snap_iter + 1])
        /\ (LoopLeft /\ snap_iter # -1) => last_best_iter = EarliestMin(loss_hist)

\* C2 witness: a later iteration improved on the first after the parameters
\* had moved, and the snapshot was replaced
C2_Witness ==
    /\ BestTracking /\ pc = "step" /\ i = 1 /\ snap_iter = 1
    /\ loss_hist = <<1, 0>>
    /\ param_hist[2] # param_hist[1]

\* C3 as stated: best_loss never increases and after every iteration equals
\* the least loss observed so far.
C3_Original ==
    /\ [](Len(loss_hist) > 0 => best_loss = SetMin({loss_hist[m] : m \in 1..Len(loss_hist)}))
    /\ [][best_loss' <= best_loss]_vars

\* C3 amended: best_loss never increases and after every iteration equals
\* the smaller of finfo.max (its initial value) and the losses observed so
\* far, whether or not best tracking is enabled.
C3_BestLossIsRunningMin ==
    /\ [](best_loss = RunMin(loss_hist, Len(loss_hist)))
    /\ [][best_loss' <= best_loss]_vars

\* C3 witness: best tracking off, the loss went down and up again
C3_Witness ==
    /\ cfg.not_use_best_mse /\ pc = "step"
    /\ loss_hist = <<1, 0, 1>> /\ best_loss = 0

\* C4: with not_use_best_mse the loop runs its whole budget and unwrap is
\* handed the parameters of the final iteration, iters - 1.
C4_FinalIterationCommitted ==
    (cfg.not_use_best_mse /\ LoopLeft) =>
        /\ Len(param_hist) = cfg.iters
        /\ snap_iter = cfg.iters - 1
        /\ SnapshotOf(param_hist[cfg.iters])
        /\ pc = "done" =>
              \A n \in cfg.to_quant :
                  LET w == param_hist[cfg.iters][n]
                  IN layer[n] = Unwrapper(w.value, w.min_scale, w.max_scale)

\* C4 witness: the first iteration had the lowest loss, on other parameters
C4_Witness ==
    /\ cfg.not_use_best_mse /\ pc = "done" /\ cfg.iters = 2
    /\ loss_hist = <<0, 1>>
    /\ param_hist[2] # param_hist[1]

\* C5 as stated: whenever wrappers exist, also right after an optimizer
\* step, every min_scale and max_scale lies in [-1, 0].
C5_Original ==
    \A n \in DOMAIN wrapper :
        InRange(wrapper[n].min_scale) /\ InRange(wrapper[n].max_scale)

\* C5 amended: after every forward pass of an iteration (until the optimizer
\* steps again), in every snapshot and in what unwrap commits, min_scale and
\* max_scale lie in [-1, 0].
C5_ScalesInRangeAfterForward ==
    /\ pc = "step" =>
          \A n \in DOMAIN wrapper :
              InRange(wrapper[n].min_scale) /\ InRange(wrapper[n].max_scale)
    /\ \A n \in DOMAIN best_min_scale.d : InRange(best_min_scale.d[n])
    /\ \A n \in DOMAIN best_max_scale.d : InRange(best_max_scale.d[n])
    /\ \A n \in Layers : InRange(layer[n].min_scale) /\ InRange(layer[n].max_scale)

\* C5 witness: a step of size 2 took min_scale to -2 and max_scale to 2, and
\* the next forward clamped them
C5_Witness ==
    /\ pc = "step" /\ i = 1 /\ cfg.enable_minmax_tuning /\ cfg.minmax_lr = 2
    /\ wrapper["q_proj"].min_scale = -1
    /\ wrapper["q_proj"].max_scale = 0

\* C6: when no snapshot was captured in the loop, unwrapper_block raises
\* nothing and unwraps every wrapped layer with v = 0, min_scale = 0,
\* max_scale = 0.
C6_NoSnapshotNeutralUnwrap ==
    (snap_iter = -1 /\ pc \in {"done", "raised"}) =>
        /\ err = "none"
        /\ DOMAIN wrapper = {}
        /\ \A n \in cfg.to_quant : layer[n] = Unwrapper(0, 0, 0)

\* C6 witness: two iterations without a loss below finfo.max, block unwrapped
C6_Witness ==
    /\ pc = "done" /\ snap_iter = -1 /\ loss_hist = <<Inf, Inf>>
    /\ cfg.to_quant = Layers

\* C8 as stated: when unwrapper_block is called the snapshot variables hold
\* one per-layer triple set covering every wrapped layer.
C8_Original ==
    pc = "unwrap" =>
        /\ best_v.isdict /\ best_min_scale.isdict /\ best_max_scale.isdict
        /\ DOMAIN best_v.d = DOMAIN wrapper
        /\ DOMAIN best_min_scale.d = DOMAIN wrapper
        /\ DOMAIN best_max_scale.d = DOMAIN wrapper

\* C8 amended: when unwrapper_block is called, either some iteration's loss
\* was below finfo.max or best tracking is off, and then the snapshot
\* variables hold exactly the latest capture, one triple per wrapped layer;
\* or no iteration captured and all three still hold the placeholder.
C8_OneSnapshotAtUnwrap ==
    pc = "unwrap" =>
        IF cfg.not_use_best_mse \/ HasImprovement(loss_hist)
        THEN /\ snap_iter # -1
             /\ SnapshotOf(param_hist[snap_iter + 1])
             /\ DOMAIN best_v.d = DOMAIN wrapper /\ DOMAIN wrapper = cfg.to_quant
             /\ DOMAIN best_min_scale.d = DOMAIN wrapper
             /\ DOMAIN best_max_scale.d = DOMAIN wrapper
        ELSE snap_iter = -1 /\ NoSnapshot

\* C8 witness: two captures in one loop over a two-layer block, the second
\* replacing the first
C8_Witness ==
    /\ pc = "unwrap" /\ cfg.to_quant = Layers /\ cfg.lr = 2
    /\ loss_hist = <<1, 0>> /\ snap_iter = 1
    /\ SnapshotOf(param_hist[2]) /\ ~SnapshotOf(param_hist[1])

\* ------------------------------------------- properties: unwrapper_block
PartialSnapshot ==
    \/ best_v.isdict /\ ~(cfg.to_quant \subseteq DOMAIN best_v.d)
    \/ best_min_scale.isdict /\ ~(cfg.to_quant \subseteq DOMAIN best_min_scale.d)
    \/ best_max_scale.isdict /\ ~(cfg.to_quant \subseteq DOMAIN best_max_scale.d)
\* the entry of snapshot argument s for layer n, `neutral` when there is none
EntryOr(s, n, neutral) == IF s.isdict /\ n \in DOMAIN s.d THEN s.d[n] ELSE neutral

\* C7: unwrapper_block given a dict that lacks a wrapped layer raises
\* nothing, unwraps that layer with v = 0 and scales 0 and every other layer
\* with its snapshot values.
C7_PartialSnapshotFallsBack ==
    (pc # "call" /\ PartialSnapshot) =>
        /\ err = "none"
        /\ \A n \in cfg.to_quant :
              layer[n] = Unwrapper(EntryOr(best_v, n, 0), EntryOr(best_min_scale, n, 0),
                                   EntryOr(best_max_scale, n, 0))

\* ------------------------------------ properties: cache_block_input, calib
CacheBlockInputEnded == pc \in {"c_returned", "exited", "raised"}

\* C9: however cache_block_input ends, the block's forward is the original
\* one again and the attribute orig_forward is gone.
C9_ForwardAlwaysRestored ==
    CacheBlockInputEnded => (forward = "orig" /\ ~orig_forward)

\* C10: the buffer of the designated block never holds more than n_samples
\* samples, and no batch is consumed once n_samples are counted.
C10_BufferBounded ==
    /\ inputs <= n_samples
    /\ (pc = "c_loop" /\ n_batches > 0) => total_cnt < n_samples

\* calib's loop and its sample-count check are over: cache_block_input is at
\* line 839 or later
CalibRunEnded == pc \in {"c_recover", "c_returned", "raised"}

\* C11 (as claimed): when the calibration run ends with nothing in the
\* buffer the pipeline ends in a fatal error and cache_block_input does not
\* return; when it ends with at least one but fewer than the requested
\* samples in the buffer, the warning was logged. Violated: total_cnt also
\* counts the batches whose model call failed, so a short buffer can pass the
\* check of line 815 unwarned.
C11_EmptyFatalShortWarned ==
    /\ pc = "c_returned" => inputs >= 1
    /\ (CalibRunEnded /\ 1 <= inputs /\ inputs < n_samples) => warned

\* the model call on the batch just consumed raised an error other than
\* the sentinel, before or inside the hook, and line 804 caught it
BatchFailed == n_batches' = n_batches + 1 /\ last_run' \in {"error", "hook_error"}

\* C12 (as claimed): a batch whose model call raises an error other than
\* the sentinel adds nothing to the buffer, no exception leaves calib, and
\* the loop goes on to the next batch unless the sample counter has reached
\* n_samples. Violated: the hook appends the batch before it stores the
\* other inputs, so an error raised there leaves the batch in the buffer.
C12_FailedBatchSkipped ==
    [][BatchFailed
       => /\ inputs' = inputs
          /\ err' = "none"
          /\ forward' = "hook"
          /\ pc' = IF total_cnt' >= n_samples THEN "c_after" ELSE "c_loop"]_vars

\* quant_block, calibration and qdq_weight_round have not been entered
NothingStarted ==
    /\ BlockIdle
    /\ CalibIdle
    /\ block_i = 0
    /\ calls = << >>
    /\ saves = << >>

PastCheck == pc \in {"post_init", "constructed"}

\* C20 (as claimed): a construction that gets past check_configs had positive
\* bits, batch size, iterations, sequence length, block count and
\* gradient-accumulation steps. Violated: a non-positive iters is replaced by
\* 200 before check_configs runs.
C20_Original ==
    PastCheck =>
        /\ args.bits > 0
        /\ args.batch_size > 0
        /\ args.iters > 0
        /\ args.seqlen > 0
        /\ args.n_blocks > 0
        /\ args.gradient_accumulate_steps > 0

\* C20 (amended): a non-positive bits, batch size, sequence length, block
\* count or gradient-accumulation steps ends the construction in an
\* AssertionError before any calibration or optimization; a non-positive
\* iters does not: it is replaced by 200, with a warning.
C20_NonPositiveRejectedExceptIters ==
    /\ PastCheck =>
          /\ args.bits > 0
          /\ args.batch_size > 0
          /\ args.seqlen > 0
          /\ args.n_blocks > 0
          /\ args.gradient_accumulate_steps > 0
          /\ attrs.iters = (IF args.iters <= 0 THEN 200 ELSE args.iters)
          /\ attrs.iters_reset = (args.iters <= 0)
    /\ pc = "raised" => err = "AssertionError" /\ NothingStarted

\* the constructor was given a non-positive seqlen (and nothing else wrong)
\* and has raised
C20_Witness ==
    /\ pc = "raised"
    /\ err = "AssertionError"
    /\ args.seqlen <= 0
    /\ args.bits > 0 /\ args.batch_size > 0 /\ args.iters > 0 /\ args.n_blocks > 0
    /\ args.gradient_accumulate_steps > 0 /\ args.group_size = -1

\* ------------------------------------------- properties: qdq_weight_round
Marker == run.pre_quantized_block_num
CallIds == 1..Len(calls)
BlocksIn(c) == {c.blocks[k] : k \in 1..Len(c.blocks)}
\* the structural blocks handed to quant_block so far, alone or in a group
Processed == UNION {BlocksIn(calls[k]) : k \in CallIds}
\* the number of leading blocks whose weights are quantized
LeadingQuantized(w) == Cardinality({b \in DOMAIN w : \A a \in 1..b : w[a] # "float"})
\* the forwards of the blocks in `blocks`, each with the given weight state
Through(blocks, state) == [k \in 1..Len(blocks) |-> <<blocks[k], state>>]
UsesRunWeights(t) == \E k \in 1..Len(t) : t[k][2] = "quant"
BetweenBlocks == pc \in {"r_loop", "r_done", "exited"}

\* C13: a quant_block call on a block the marker marks as quantized never
\* wraps it, runs no iteration and leaves every weight as it was; what it
\* returns, as quantized and as reference output alike, is the forward
\* output of the block on its input.
C13_SkippedBlockUntouched ==
    \A k \in CallIds :
        calls[k].skip =>
            /\ ~calls[k].wrapped
            /\ calls[k].iters_run = 0
            /\ calls[k].after = calls[k].before
            /\ calls[k].output =
                   calls[k].input_ids \o [j \in 1..Len(calls[k].blocks) |->
                       <<calls[k].blocks[j], calls[k].before[calls[k].blocks[j]]>>]
            /\ calls[k].q_outputs = calls[k].output

\* a skipped block has been through quant_block and the next one was tuned
C13_Witness ==
    /\ Len(calls) >= 2
    /\ calls[1].skip
    /\ ~calls[2].skip
    /\ weights[1] = "pre"

\* C14 (as claimed): a block handed to quant_block is skipped iff its 1-based
\* index is at most the marker, and a block that is not skipped is wrapped
\* and tuned. Violated for n_blocks > 1: line 1171 tests the first block of
\* the group only.
C14_SkipIffIndexAtMostMarker ==
    \A k \in CallIds : \A b \in BlocksIn(calls[k]) :
        /\ calls[k].skip <=> b <= Marker
        /\ b > Marker => calls[k].wrapped /\ calls[k].iters_run >= 1

\* C15 (as claimed): the pre_quantized_block_num of every record written to
\* quant_info.json is the number of leading blocks that were quantized when
\* it was written. Violated for n_blocks > 1: the value is the index of the
\* group's first block.
C15_MarkerCountsLeadingQuantized ==
    \A k \in 1..Len(saves) :
        saves[k].outcome = "written" => saves[k].value = LeadingQuantized(saves[k].weights)

\* C16 (as claimed): with SAVE_CHECKPOINT set, whenever the loop is between
\* two blocks every block tuned so far has had the model and the marker
\* written, and no skipped block has caused a write. Violated:
\* _save_model_to_local swallows the exception it runs into without
\* QUANT_INFO_DIR, without a tokenizer, or with a relative directory.
C16_TunedBlockPersisted ==
    (run.save_checkpoint /\ BetweenBlocks) =>
        /\ \A k \in CallIds :
               ~calls[k].skip =>
                   \E j \in 1..Len(saves) :
                       saves[j].i = calls[k].i /\ saves[j].outcome = "written"
        /\ \A j \in 1..Len(saves) : \E k \in CallIds :
               saves[j].i = calls[k].i /\ ~calls[k].skip

\* C17 (as claimed): the blocks handed to quant_block in one run are never
\* more than MAX_NUM_BLOCKS. Violated for n_blocks > 1: line 1155 tests the
\* index of the group's first block.
C17_ProcessedWithinBound == Cardinality(Processed) <= run.MAX_NUM_BLOCKS

\* C18: with use_quant_input, when two consecutive quant_block calls both
\* tune, the second is tuned on the first's tuning input run through the
\* first's blocks with the weights quantized in this run, and its reference
\* output is the first's reference output run through its own blocks with
\* the weights they had before being wrapped.
C18_QuantInputChained ==
    run.use_quant_input =>
        \A k \in CallIds :
            (k + 1 \in CallIds /\ ~calls[k].skip /\ ~calls[k + 1].skip) =>
                /\ calls[k + 1].tune_in =
                       calls[k].tune_in \o Through(calls[k].blocks, "quant")
                /\ \A b \in BlocksIn(calls[k + 1]) : calls[k + 1].before[b] = "float"
                /\ calls[k + 1].output =
                       calls[k].output \o Through(calls[k + 1].blocks, "float")
                /\ calls[k].output =
                       calls[k].input_ids \o [j \in 1..Len(calls[k].blocks) |->
                           <<calls[k].blocks[j], calls[k].before[calls[k].blocks[j]]>>]

\* three blocks in a row were tuned with use_quant_input: the second one's
\* tuning input differs from its float input
C18_Witness ==
    /\ run.use_quant_input
    /\ Len(calls) >= 3
    /\ \A k \in 1..3 : ~calls[k].skip
    /\ calls[2].tune_in # calls[2].input_ids

\* C19: without use_quant_input a tuning quant_block call returns None as
\* quantized output, and every later tuning call is tuned on the previous
\* call's reference output, which holds no forward through weights
\* quantized in this run.
C19_FloatInputChained ==
    ~run.use_quant_input =>
        \A k \in CallIds :
            ~calls[k].skip =>
                /\ calls[k].q_outputs = None
                /\ ~UsesRunWeights(calls[k].tune_in)
                /\ k > 1 =>
                       /\ calls[k].tune_in = calls[k - 1].output
                       /\ calls[k - 1].output =
                              calls[k - 1].input_ids \o
                                  [j \in 1..Len(calls[k - 1].blocks) |->
                                      <<calls[k - 1].blocks[j],
                                        calls[k - 1].before[calls[k - 1].blocks[j]]>>]

\* two blocks in a row were tuned without use_quant_input
C19_Witness ==
    /\ ~run.use_quant_input
    /\ Len(calls) >= 2
    /\ ~calls[1].skip
    /\ ~calls[2].skip

\* ------------------------------------------ properties: the tuning loop
\* iterations between the latest executed iteration and the last one that
\* improved on the best loss (iteration 0 when none did)
SinceImprovement(h) ==
    (Len(h) - 1) - (IF HasImprovement(h) THEN LastImprovement(h) ELSE 0)
\* the loop was left by the break of line 1075
LeftByBreak == LoopLeft /\ i < cfg.iters
GapStop == BestTracking /\ cfg.dynamic_max_gap > 0

\* C28 (as claimed): with best tracking and a positive gap g the loop is
\* left early only at an iteration where the number of iterations since the
\* last improvement exceeds g. Violated: line 1074 breaks as soon as that
\* number reaches g.
C28_Original ==
    (GapStop /\ LeftByBreak) => SinceImprovement(loss_hist) > cfg.dynamic_max_gap

\* C28 (amended): with best tracking and a positive gap g the loop keeps
\* iterating while the number of iterations since the last improvement is
\* below g and stops at the first iteration where it reaches g.
C28_StopsWhenGapReached ==
    (GapStop /\ loss_hist # << >>) =>
        /\ SinceImprovement(loss_hist) <= cfg.dynamic_max_gap
        /\ LeftByBreak => SinceImprovement(loss_hist) = cfg.dynamic_max_gap
        /\ (pc = "forward" \/ (LoopLeft /\ i = cfg.iters)) =>
               SinceImprovement(loss_hist) < cfg.dynamic_max_gap

\* g = 2: the loss improved at iterations 0 and 1, stayed flat, and the loop
\* was left at iteration 3
C28_Witness ==
    /\ pc = "unwrap"
    /\ GapStop
    /\ cfg.dynamic_max_gap = 2
    /\ loss_hist = <<1, 0, 0, 0>>
    /\ i = 3
    /\ i < cfg.iters - 1

\* C29: every min_scale and max_scale that reached quant_weight, in each
\* forward pass of each iteration and in unwrap, lies in [-1, 0], with
\* min-max tuning on or off.
C29_ScalesInRangeAtQuantWeight ==
    /\ \A k \in 1..Len(param_hist) : \A n \in DOMAIN param_hist[k] :
           InRange(param_hist[k][n].min_scale) /\ InRange(param_hist[k][n].max_scale)
    /\ \A n \in Layers :
           layer[n].quantized =>
               InRange(layer[n].min_scale) /\ InRange(layer[n].max_scale)

\* a step of size 2 took min_scale to -2; the second forward and the unwrap
\* handed -1 to quant_weight
C29_Witness ==
    /\ pc = "done"
    /\ cfg.enable_minmax_tuning
    /\ cfg.minmax_lr = 2
    /\ Len(param_hist) = 2
    /\ param_hist[2]["q_proj"].min_scale = -1
    /\ layer["q_proj"].quantized
    /\ layer["q_proj"].min_scale = -1

\* at most iters iterations run; exactly iters when nothing can break the
\* loop; nothing but the loop's own end leads to the unwrap, which leaves
\* no wrapper behind
LoopBudget ==
    /\ Len(loss_hist) <= cfg.iters
    /\ (LoopLeft /\ ~GapStop) => Len(loss_hist) = cfg.iters
    /\ (LoopLeft /\ ~LeftByBreak) => Len(loss_hist) = cfg.iters
    /\ pc # "raised"
    /\ pc = "done" =>
           /\ wrapper = EmptyDict
           /\ \A n \in cfg.to_quant : layer[n].quantized

\* C30: the loop of quant_block ends after at most iters iterations,
\* exactly iters when best tracking is off or dynamic_max_gap <= 0, and the
\* block is then unwrapped: quant_block always gets there.
C30_LoopEndsAndUnwraps == []LoopBudget /\ <>(pc = "done")

\* the whole budget was spent with a gap configured but best tracking off
C30_Witness ==
    /\ pc = "done"
    /\ cfg.not_use_best_mse
    /\ cfg.dynamic_max_gap = 1
    /\ cfg.iters = MaxIters
    /\ Len(loss_hist) = MaxIters

\* the layers that have been given back by a wrapper's unwrapper
Unwrapped == {n \in Layers : layer[n].quantized}

\* wrappers exist exactly from wrapper_block to unwrapper_block
WrappersBetween ==
    /\ pc = "wrap" => wrapper = EmptyDict /\ Unwrapped = {}
    /\ pc \in {"forward", "step", "unwrap"} =>
           DOMAIN wrapper = cfg.to_quant /\ Unwrapped = {}
    /\ pc = "done" => wrapper = EmptyDict /\ Unwrapped = cfg.to_quant
\* only wrapper_block adds wrappers, only unwrapper_block removes them
WrapSteps ==
    /\ DOMAIN wrapper' # DOMAIN wrapper =>
           \/ pc = "wrap" /\ pc' = "forward"
           \/ pc = "unwrap" /\ pc' = "done"
    /\ Unwrapped' # Unwrapped => pc = "unwrap" /\ pc' = "done"

\* C25: every quantizable layer of a tuned block is wrapped once, by
\* wrapper_block, and unwrapped once, by unwrapper_block; wrappers exist only
\* between the two, and once quant_block is through no wrapper is left and
\* every wrapped name is the original layer again.
C25_WrappedOnceUnwrappedOnce == []WrappersBetween /\ [][WrapSteps]_vars

\* a block with two quantizable layers went through quant_block after more
\* than one iteration
C25_Witness ==
    /\ pc = "done"
    /\ cfg.to_quant = Layers
    /\ Unwrapped = Layers
    /\ wrapper = EmptyDict
    /\ Len(loss_hist) >= 2

\* --------------------------------------------------- quantize(): claims
\* the weights and the dtype are those of the float model AutoRound was given
ModelAsGiven ==
    /\ model_dtype = qin.model_dtype
    /\ \A n \in QLayers : modules[n].weight = qin.weight /\ ~modules[n].qdq

\* C23 (as claimed): when the model has no structural blocks, quantize()
\* does not fail, runs no calibration and no optimization, and returns the
\* unmodified model. Violated: line 1238 is a bare `return`, so the caller
\* gets None, and the model stays in the dtype __init__ moved it to.
C23_NoBlocksReturnsModel ==
    (pc = "q_returned" /\ qin.len_block_names = 0) =>
        /\ err = "none"
        /\ trace = << >>
        /\ ret = "model_and_weight_config"
        /\ ModelAsGiven

\* the value the configuration gives field k of layer n: the per-layer entry's
\* when it sets k, the global one otherwise
Configured(n, k) ==
    IF n \in DOMAIN qin.weight_config /\ k \in DOMAIN qin.weight_config[n]
    THEN qin.weight_config[n][k]
    ELSE Some(qin[k])

\* C21 (as claimed): from configuration to the end of quantize(), every
\* supported layer has, for each of bits, group_size, sym and scale_dtype,
\* the per-layer override when one is set and the global default otherwise,
\* on the module and in weight_config. Violated: line 706 assigns the global
\* scale_dtype over a per-layer one, and lines 1279-1285 overwrite bits,
\* group_size and sym of every layer that was not tuned.
C21_OverrideElseGlobalKept ==
    pc \in {"q_ready", "q_round", "q_fill", "q_summary", "q_returned"} =>
        \A n \in QLayers : \A k \in OverrideKeys :
            /\ modules[n].attr[k] = Configured(n, k)
            /\ weight_config[n][k] = Configured(n, k)

\* the layers the configuration marks as not to be quantized
DoNotQuantize == {n \in QLayers : Configured(n, "bits")[1] > 8}

\* the layers some wrapper_block call of this run has wrapped
EverWrapped == UNION {trace[k].layers : k \in 1..Len(trace)}

\* C22 (as claimed): a layer marked do-not-quantize is never wrapped, and
\* when quantize() has returned its weight is the weight the model came
\* with, whatever the model dtype and the amp setting. Violated: __init__
\* moves the whole model to the tuning dtype and quantize() moves it back,
\* which rounds the weights of an fp32 model under amp.
C22_DoNotQuantizeBitIdentical ==
    \A n \in DoNotQuantize :
        /\ n \notin EverWrapped
        /\ ~modules[n].qdq
        /\ (pc = "q_returned" /\ ret = "model_and_weight_config") =>
               modules[n].weight = qin.weight

\* the parameters quant_weight computes a layer's scale from
OwnScale(n) ==
    [bits |-> modules[n].attr["bits"][1],
     group_size |-> modules[n].attr["group_size"][1],
     sym |-> modules[n].attr["sym"][1],
     scale_dtype |-> modules[n].attr["scale_dtype"][1]]

\* C24 (as claimed): once quantize() has completed, every layer whose weight
\* is quantized has scale, zp and g_idx in weight_config, the scale being
\* that of its own bits, group size and symmetry and g_idx[j] = j // its own
\* group size (zeros for -1), and every layer recorded as 16-bit is a layer
\* whose weight is not quantized. Violated: line 1271 divides by the global
\* group size, and the layers of blocks skipped on a resumed run have no
\* scale attribute and are recorded as 16-bit float.
C24_QuantizedLayersRecorded ==
    (pc = "q_returned" /\ ret = "model_and_weight_config") =>
        \A n \in QLayers :
            /\ modules[n].qdq =>
                  /\ {"scale", "zp", "g_idx"} \subseteq DOMAIN weight_config[n]
                  /\ weight_config[n]["scale"] = Some(OwnScale(n))
                  /\ weight_config[n]["g_idx"]
                         = Some(GIdx(modules[n].attr["group_size"][1]))
            /\ weight_config[n]["bits"] = Some(16) => ~modules[n].qdq

\* ------------------------------------------------------ teq_util: claims
Output == DecoderForward(hidden_states, llama_decoder_layer, scale_mods)

FreshScales == \A k \in DOMAIN scale_mods : scale_mods[k] = ScaleMod

NoWrappers == \A n \in TeqNames : llama_decoder_layer.mods[n] = Plain(n)

PairIds == 1..Len(module_pairs_info)

LayersOf(p) ==
    {module_pairs_info[p].layer_names[j] :
         j \in 1..Len(module_pairs_info[p].layer_names)}

RECURSIVE Folded(_, _)
\* the weight of module n with the scales of pairs 1..p folded in
Folded(n, p) ==
    IF p = 0 THEN llama_decoder_layer.weight0[n]
    ELSE LET w == Folded(n, p - 1)
             s == Rat(scale_mods[p].scales)
         IN IF n = module_pairs_info[p].prev_op_name THEN RDiv(w, s)
            ELSE IF n \in LayersOf(p) THEN RMul(w, s)
            ELSE w

\* C26: replace_ and absorb_mul_ do not raise on the block's pair list; the
\* block's output on the same input equals the reference output after
\* replace_ while the scales are the fresh ones, and again after
\* absorb_mul_; after absorb_mul_ every name refers to its original module
\* with no MulLinear or DivLinear left, and each weight has the scales of
\* its pairs folded in (divided where it is the previous op, multiplied
\* where it is a scaled layer).
C26_OutputKeptAndReverted ==
    /\ pc # "raised"
    /\ (pc = "t_replaced" /\ FreshScales) => Output = output_ref
    /\ pc = "t_absorbed" =>
          /\ Output = output_ref
          /\ NoWrappers
          /\ \A n \in TeqNames :
                llama_decoder_layer.weight[n] = Folded(n, Len(module_pairs_info))

\* absorb_mul_ has run on the Llama list, whose first two pairs both wrap
\* v_proj: four fresh scale vectors were created and folded, and v_proj is
\* the plain module again
C26_Witness ==
    /\ pc = "t_absorbed"
    /\ module_pairs_info = LlamaPairs
    /\ Len(scale_mods) = 4
    /\ FreshScales
    /\ llama_decoder_layer.mods["self_attn.v_proj"] = Plain("self_attn.v_proj")
    /\ llama_decoder_layer.weight["self_attn.v_proj"]
           = Folded("self_attn.v_proj", 4)
    /\ NoWrappers

NamedInPairs ==
    UNION {LayersOf(p) \cup {module_pairs_info[p].prev_op_name} : p \in PairIds}

\* the parameters replace_ does not reach are frozen
OtherwiseFrozen ==
    \A n \in TeqNames \ NamedInPairs : ~llama_decoder_layer.requires_grad[n]

HasWrapper(n, kind, id) ==
    \E j \in DOMAIN llama_decoder_layer.mods[n].wraps :
        llama_decoder_layer.mods[n].wraps[j] = <<kind, id>>

\* C27: after replace_ on a block whose other parameters are frozen, the
\* trainable parameters are exactly the scale vectors, one per pair; the
\* MulLinears of a pair's layers and the DivLinear of its previous op hold
\* that pair's ScaleMod; every wrapped module's parameters are frozen.
C27_TrainableAreSharedScales ==
    (pc = "t_replaced" /\ OtherwiseFrozen) =>
        /\ get_tranable_params = {<<"scales", p>> : p \in PairIds}
        /\ Cardinality(get_tranable_params) = Len(module_pairs_info)
        /\ \A p \in PairIds :
              /\ HasWrapper(module_pairs_info[p].prev_op_name, "Div", p)
              /\ \A n \in LayersOf(p) : HasWrapper(n, "Mul", p)
        /\ \A n \in NamedInPairs : ~llama_decoder_layer.requires_grad[n]

\* replace_ has run on the Llama list of a block that came with trainable
\* weights: 4 trainable parameters, v_proj inside a DivLinear and a MulLinear
C27_Witness ==
    /\ pc = "t_replaced"
    /\ module_pairs_info = LlamaPairs
    /\ Cardinality(get_tranable_params) = 4
    /\ llama_decoder_layer.mods["self_attn.v_proj"].wraps = <<<<"Div", 2>>, <<"Mul", 1>>>>
    /\ \A n \in TeqNames : ~llama_decoder_layer.requires_grad[n]

\* ------------------------------------------- properties: calib batch kinds
\* number of samples held in the calibration buffer of the designated block
BufferCount == IF inputs = NoEntry THEN 0 ELSE inputs

\* calib consumed a dataloader batch that is not None
BatchConsumed == n_batches' = n_batches + 1 /\ last_run' # "none"

\* the model was run on a batch of s samples that meets the minimum length:
\* what line 798-801 passes to the model is that batch, the counter advanced
\* by the part of it that was requested, and when the call reached the
\* block the s samples were appended
RunAsGiven(s) ==
    /\ data_new' = Batch(s, TRUE)
    /\ total_cnt' = total_cnt + Truncated(total_cnt, s, n_samples)
    /\ last_run' = "block" => BufferCount' = BufferCount + s

BatchHandledAsGiven ==
    BatchConsumed =>
        IF last_run' = "short"
        THEN inputs' = inputs /\ total_cnt' = total_cnt
        ELSE \E s \in 1..MaxBatch : RunAsGiven(s)

\* C36 (as claimed): whatever the kind of a batch (token-id tensor, text
\* with a tokenizer, keyed bundle) and whatever came before it, a batch that
\* meets the minimum sequence length is run through the model as given and
\* its block input is appended to the buffer, and a shorter batch is neither
\* run nor counted. Violated: a token-id tensor is never bound to data_new,
\* so the model is called on an unbound name or on an earlier batch.
C36_BatchKindsRunAsGiven == [][BatchHandledAsGiven]_vars

\* C37 (as claimed): at every point of calibration the running sample
\* counter equals the number of samples held in the buffer of the
\* designated block. Violated: the counter advances by the truncated batch
\* size whether or not the hook appended anything.
C37_CounterEqualsBuffer == total_cnt = BufferCount

\* ----------------------------------- properties: group order, marker writes
\* the records of quant_info.json that were actually written, in order
Written(k) == saves[k].outcome = "written"

\* C38: within one run the pre_quantized_block_num values written to
\* quant_info.json are strictly increasing from one write to the next, every
\* written value is greater than the marker _post_init read, and the file
\* holds the last value written (the value read when nothing was written).
C38_MarkerWritesIncrease ==
    /\ \A k \in 1..Len(saves) :
           Written(k) =>
               /\ saves[k].value > Marker
               /\ \A j \in 1..(k - 1) : Written(j) => saves[j].value < saves[k].value
    /\ \A k \in 1..Len(saves) : Written(k) => ckpt.marker >= saves[k].value
    /\ ckpt.marker >= Marker

\* a run that started from a marker of at least 1 has written twice
C38_Witness ==
    /\ Marker >= 1
    /\ \E j, k \in 1..Len(saves) : j < k /\ Written(j) /\ Written(k)

\* the group that starts at 0-based index idx: n consecutive blocks in the
\* order of block_names, fewer when the list ends first
ExpectedGroup(idx) ==
    [j \in 1..Min(run.n_blocks, run.len_block_names - idx) |-> idx + j]

\* C34: qdq_weight_round hands the blocks to quant_block in the order of
\* block_names, in consecutive groups of n_blocks (the last may be smaller):
\* the k-th call gets the group that starts at (k - 1) * n_blocks, no block
\* is in two groups, each call starts from what the previous call returned,
\* and when the loop ends without the block bound every block was handled
\* exactly once.
C34_GroupsInOrderOnce ==
    /\ \A k \in CallIds :
           /\ calls[k].i = (k - 1) * run.n_blocks
           /\ calls[k].blocks = ExpectedGroup(calls[k].i)
           /\ k > 1 => calls[k].input_ids = calls[k - 1].output
    /\ \A j, k \in CallIds : j # k => BlocksIn(calls[j]) \cap BlocksIn(calls[k]) = {}
    /\ pc = "r_done" =>
           \A b \in 1..run.len_block_names :
               Cardinality({k \in CallIds : b \in BlocksIn(calls[k])}) = 1

\* a run in groups of two over an odd number of blocks has ended: the last
\* group held one block
C34_Witness ==
    /\ pc = "r_done"
    /\ run.n_blocks = 2
    /\ Len(calls) = 2
    /\ Len(calls[1].blocks) = 2
    /\ Len(calls[2].blocks) = 1

\* ------------------------------------------------ properties: save_quantized
SaveEnded == pc \in {"s_raised", "s_warned", "s_exited", "s_exported"}
QuantizeCompleted == ret = "model_and_weight_config"

\* C40 (as claimed): save_quantized on an instance whose quantize() has not
\* completed (never called, or returned early for lack of blocks) logs the
\* warning and returns without exporting and without raising; the exporter
\* is only called after quantize() ran to completion. Violated: the
\* attribute the guard reads is only ever assigned at the end of quantize().
C40_SaveBeforeQuantizeWarns ==
    /\ (SaveEnded /\ ~QuantizeCompleted) => (pc = "s_warned" /\ err = "none")
    /\ pc = "s_exported" => QuantizeCompleted

\* ------------------------------------------ properties: instance isolation
\* the entries an instance would hold had no other instance existed
AloneConfig(x) == set_layerwise_config(NoConfig, instances[x].g)

\* C39 (as claimed): two instances constructed without a weight_config do
\* not influence each other: the weight_config of an instance holds exactly
\* the entries that instance set itself, and the attributes its modules are
\* quantized with are those of its own global settings. Violated: both
\* instances hold the one dict that is the parameter's default value.
C39_InstancesIsolated ==
    \A x \in Instances :
        instances[x].state # "none" =>
            /\ WeightConfigOf(x) = instances[x].own
            /\ instances[x].attr = [n \in QLayers |-> ModuleAttrs(AloneConfig(x)[n])]

\* ------------------------------------------------ properties: layer wrappers
\* C35 (as claimed): for a Linear and for a transformers Conv1D layer and
\* every valid configuration, symmetric or not, wrapping, the wrapper's
\* forward and unwrapping end without an error, and unwrapping leaves scale
\* and zp on the original layer as host-resident metadata, zp being None
\* when quant_weight returned none. Violated for Conv1D: its wrapper never
\* sets the scale_dtype its forward and unwrapper read.
C35_WrapForwardUnwrapSucceed ==
    /\ pc # "w_raised"
    /\ err = "none"
    /\ pc = "w_unwrapped" =>
           /\ DOMAIN orig_layer.meta = {"scale", "zp"}
           /\ orig_layer.meta["scale"][1].device = "cpu"
           /\ orig_layer.sym => orig_layer.meta["zp"] = NoneValue
           /\ ~orig_layer.sym => orig_layer.meta["zp"][1].device = "cpu"

\* --------------------------- properties: quant_block, statement by statement
\* the calls of the backward passes of one iteration
RECURSIVE Repeat(_, _)
Repeat(seq, n) == IF n = 0 THEN << >> ELSE seq \o Repeat(seq, n - 1)

Passes ==
    Repeat(scale_loss_and_backward(cfg.policy.cls, block.scaler),
           cfg.gradient_accumulate_steps)
\* quant_block is past its loop, which it entered
AfterLoop == pc \in {"b_after", "b_unwrapped", "b_returned"} /\ ~cfg.skip
\* the loop was left by the break of line 1075, in iteration i
EarlyStopped == AfterLoop /\ i < cfg.iters
\* the latest iteration ran to its end
IterationCompleted == (pc = "b_iter" /\ i > 0) \/ (AfterLoop /\ i = cfg.iters)

\* the calls of the current iteration that are an optimizer step, a gradient
\* reset or a schedule step, and its backward passes
Stepping == {"optimizer.step", "optimizer.zero_grad", "lr_schedule.step"}
Only(seq, kinds) == SelectSeq(seq, LAMBDA e : e \in kinds)

\* C31 as stated: in every completed iteration, whatever the class, the
\* optimizer step, the gradient reset and the schedule step happen once each
\* in that order after the backward passes, and the counts of optimizer
\* steps and schedule steps are equal
C31_Original ==
    /\ IterationCompleted =>
           /\ Only(events, Stepping)
                  = <<"optimizer.step", "optimizer.zero_grad", "lr_schedule.step">>
           /\ Count(events, "backward") = cfg.gradient_accumulate_steps
    /\ (pc = "b_step" \/ EarlyStopped) => Only(events, Stepping) = << >>
    /\ n_opt = n_sched
    /\ n_opt <= cfg.iters

\* C31: an iteration that does not trigger early stop makes, after its
\* gradient_accumulate_steps backward passes, one gradient reset and one
\* lr_schedule.step in that order, preceded by exactly one optimizer.step
\* when no gradient scaler is in use (always for AutoRound); with a scaler
\* the optimizer is handed once to scaler.step, which makes the
\* optimizer.step or skips it, and scaler.update follows the schedule step.
\* The iteration that triggers early stop makes none of these calls. So
\* there is one schedule step per completed iteration, at most iters, and
\* the optimizer steps are as many without a scaler and at most as many
\* with one.
C31_StepOncePerIteration ==
    /\ IterationCompleted =>
           \/ events = Passes \o step(cfg.policy.cls, block.scaler, FALSE)
           \/ block.scaler /\ events = Passes \o step(cfg.policy.cls, block.scaler, TRUE)
    /\ IterationCompleted =>
           /\ Only(events, Stepping \ {"optimizer.step"})
                  = <<"optimizer.zero_grad", "lr_schedule.step">>
           /\ Count(events, "backward") = cfg.gradient_accumulate_steps
           /\ ~block.scaler =>
                  events = Passes
                           \o <<"optimizer.step", "optimizer.zero_grad", "lr_schedule.step">>
           /\ block.scaler =>
                  /\ Count(events, "scaler.step") = 1
                  /\ events[Len(events)] = "scaler.update"
                  /\ Count(events, "optimizer.step") <= 1
    /\ (pc = "b_step" \/ EarlyStopped) => events = Passes
    /\ n_sched = i
    /\ n_sched <= cfg.iters
    /\ n_opt <= n_sched
    /\ ~block.scaler => n_opt = n_sched
    /\ block.scaler => cfg.policy.cls # "AutoRound"

\* with a scaler, one iteration of two passes was stepped with the
\* optimizer step skipped, and the next one stopped early
C31_Witness ==
    /\ EarlyStopped
    /\ block.scaler
    /\ n_sched = 1
    /\ n_opt = 0
    /\ cfg.gradient_accumulate_steps = 2

InIteration == pc \in {"b_acc", "b_best", "b_step"}

IndicesValid ==
    /\ Len(indices) <= cfg.train_bs
    /\ \A k \in 1..Len(indices) : indices[k] \in 0..(cfg.n_samples - 1)

\* C32 (as claimed): under the policy "random" the indices are drawn anew
\* at the start of every iteration. Violated: the policy the code redraws
\* under is spelled "rand"; "random" is any other policy.
C32_Original == (InIteration /\ cfg.sampler = "random") => draw_at = i

SamplerState ==
    /\ (InIteration /\ cfg.sampler = "rand") => (draw_at = i /\ Len(indices) >= 1)
    /\ (pc # "b_enter" /\ ~cfg.skip /\ cfg.sampler # "rand") =>
           (draw_at = -1 /\ Len(indices) >= 1)
    /\ IndicesValid

IndicesReused ==
    (pc # "b_enter" /\ cfg.sampler # "rand") => indices' = indices

\* C32 (amended): under the policy "rand" the mini-batch indices are drawn
\* anew at the start of every iteration; under any other policy, "random"
\* included, they are drawn once before the loop and every iteration uses
\* them unchanged. Either way every index is a valid calibration-sample
\* index and at most train_bs indices are drawn.
C32_RandRedrawsElseOnce == []SamplerState /\ [][IndicesReused]_vars

\* the second iteration of a "rand" run works on indices drawn in it
C32_Witness ==
    /\ cfg.sampler = "rand"
    /\ pc = "b_acc"
    /\ i = 1
    /\ draw_at = 1
    /\ Len(indices) = 2

\* the block's forward output on input_ids with the weights it had on entry
ReferenceOutput == get_block_outputs(<<1>>, input_ids, [n \in {1} |-> "float"])

\* C33: the reference output is computed once, on the block before it is
\* wrapped; for the rest of quant_block, through iterations, optimizer
\* steps and the unwrap, it stays that value, and it is what quant_block
\* returns as the reference output.
C33_ReferenceOutputFixed ==
    /\ pc # "b_enter" => block_output = ReferenceOutput
    /\ pc = "b_returned" => returned.output = ReferenceOutput

\* a block tuned on the previous block's quantized output has been stepped,
\* unwrapped and returned
C33_Witness ==
    /\ pc = "b_returned"
    /\ ~cfg.skip
    /\ n_opt >= 1
    /\ block.weight = "quant"
    /\ q_input # None

====
